---- MODULE Spec2Model ----
(***************************************************************************)
(* Model of the lymph package: the unilateral hidden Markov model          *)
(* (lymph/unilateral.py), the legacy System class (lymph/system.py), the   *)
(* helpers (lymph/helper.py) and the bilateral synchronisation             *)
(* (lymph/models/bilateral.py).                                            *)
(*                                                                         *)
(* Probabilities are exact fractions.  A spread probability is stored as   *)
(* its numerator over PD; an entry of the transition matrix A of a graph   *)
(* with E edges is stored as its numerator over PD^E; an entry of the      *)
(* state distribution after t steps as its numerator over (PD^E)^t.        *)
(* An attribute that may be absent (hasattr is false) is a sequence of     *)
(* length 0 (absent) or 1 (present, holding the value).                    *)
(* Arrays are sequences: element i of a Python array is element i + 1 of   *)
(* the sequence, so hidden state number i is row i + 1 of A.               *)
(***************************************************************************)
EXTENDS Integers, Sequences, FiniteSets, TLC

VARIABLES
  cls,       \* the class of the object: "Unilateral" or "System"
  graph,     \* nodes and edges built by __init__
  t,         \* edge.t of every edge
  cachedA,   \* Unilateral._A / System.A
  lnlState,  \* node.state of every LNL
  modality_tables,  \* Unilateral._modality_tables, in insertion order
  cached_obs_list,  \* Unilateral._obs_list
  cachedB,   \* Unilateral._B
  dataC,     \* Unilateral._C: T-stage -> data matrix, held column by column
  dataF,     \* Unilateral._f: T-stage -> vector of counts
  sym,       \* Bilateral: the symmetry flags and the equality of Edge objects
  edge_spread_prob,      \* Edge._spread_prob of the edges of both sides
  trigger_callbacks, \* Edge.trigger_callbacks of the edges of both sides
  pending,   \* callbacks the running setter has still to call
  runs,      \* calls made by the running write: per callback, and of setters
  ipsi_modalities,   \* Bilateral.ipsi.modalities
  contra_modalities, \* Bilateral.contra.modalities
  diag_time_dists,   \* Bilateral.diag_time_dists: T-stage -> weights of the times
  patient_data,      \* Bilateral: the patient data loaded into both sides
  bilateral_system,  \* BilateralSystem: edge.t of both sides, A_i and A_c
  ret        \* the last call and its outcome

obsVars == <<modality_tables, cached_obs_list, cachedB>>
dataVars == <<dataC, dataF>>
syncVars == <<sym, edge_spread_prob, trigger_callbacks, pending, runs>>
modVars == <<ipsi_modalities, contra_modalities>>
likVars == <<diag_time_dists, patient_data, bilateral_system>>
uniVars == <<t, cachedA, lnlState, obsVars, dataVars>>
nonParamVars == <<obsVars, dataVars, syncVars, modVars, likVars>>
vars == <<cls, graph, uniVars, syncVars, modVars, likVars, ret>>

\* ---------------------------------------------------------------- bounds
PD == 10
MaxExtra == 1
MaxT == 3

\* ------------------------------------------------------------- utilities
Absent == <<>>
Some(v) == <<v>>
IsSet(a) == Len(a) = 1
Val(a) == a[1]

Min(a, b) == IF a < b THEN a ELSE b

RECURSIVE SumSeq(_)
SumSeq(s) == IF s = <<>> THEN 0 ELSE Head(s) + SumSeq(Tail(s))

RECURSIVE Pow(_, _)
Pow(b, n) == IF n = 0 THEN 1 ELSE b * Pow(b, n - 1)

RECURSIVE Reverse(_)
Reverse(s) == IF s = <<>> THEN <<>> ELSE Reverse(Tail(s)) \o <<Head(s)>>

Zeros(n) == [k \in 1..n |-> 0]

\* All sequences over S of a length in lo..hi.

\* ------------------------------------------------------------ the graphs
\* Nodes 1..nl are the LNLs, nodes nl+1..nl+nt the tumors; edges are listed
\* in the order Unilateral.__init__ creates them from the graph dictionary.
IsTumor(g, n) == n > g.nl
NumEdges(g) == Len(g.edges)
EdgeIdx(g) == 1..NumEdges(g)

Idxs(n) == [k \in 1..n |-> k]

\* Unilateral.__init__: the lists of edges built from the graph dictionary,
\* as edge indices in creation order; inc[l] is lnl.inc of LNL l.
Unilateral(nl, nt, edges) ==
  [nl |-> nl, nt |-> nt, edges |-> edges,
   base_edges |-> SelectSeq(Idxs(Len(edges)), LAMBDA k : edges[k].s > nl),
   trans_edges |-> SelectSeq(Idxs(Len(edges)), LAMBDA k : ~(edges[k].s > nl)),
   inc |-> [l \in 1..nl |->
              SelectSeq(Idxs(Len(edges)), LAMBDA k : edges[k].e = l)]]

GraphOneLnl == Unilateral(1, 1, <<[s |-> 2, e |-> 1]>>)
GraphChain == Unilateral(2, 1, <<[s |-> 3, e |-> 1], [s |-> 1, e |-> 2]>>)
GraphTwoTumors == Unilateral(1, 2, <<[s |-> 2, e |-> 1], [s |-> 3, e |-> 1]>>)
Graphs == {GraphOneLnl, GraphChain, GraphTwoTumors}

base_edges(g) == g.base_edges
trans_edges(g) == g.trans_edges
Inc(g, l) == g.inc[l]

\* Unilateral.spread_probs (getter): base_probs followed by trans_probs.
spread_probs_getter(g, tt) ==
  [k \in 1..Len(base_edges(g)) |-> tt[base_edges(g)[k]]]
    \o [k \in 1..Len(trans_edges(g)) |-> tt[trans_edges(g)[k]]]

\* Denominator of the entries of A.
DA(g) == Pow(PD, NumEdges(g))

\* ------------------------------------------------------ state enumeration
RECURSIVE Digits(_, _)
\* The loop of change_base: least significant digit first, no digit for 0.
Digits(number, base) ==
  IF number >= base THEN <<number % base>> \o Digits(number \div base, base)
  ELSE IF number > 0 THEN <<number>> ELSE <<>>

\* The digits as the loop leaves them, least significant first.
change_base_unreversed(number, base, reverse, length) ==
  LET result == Digits(number, base)
      len == IF length < Len(result) THEN Len(result) ELSE length
  IN result \o Zeros(len - Len(result))

change_base(number, base, reverse, length) ==
  LET result == Digits(number, base)
      len == IF length < Len(result) THEN Len(result) ELSE length
      pad == Zeros(len - Len(result))
  IN IF reverse THEN result \o pad ELSE pad \o Reverse(result)

NumStates(g) == Pow(2, g.nl)
\* The numbers of the hidden states, each one more than in the code.
StateIdx(g) == 1..NumStates(g)

\* Unilateral._gen_state_list: row i + 1 holds the digits of i.
state_list(g) == [i \in StateIdx(g) |-> change_base(i - 1, 2, FALSE, g.nl)]

RECURSIVE MaskFrom(_, _, _)
MaskFrom(sl, i, j) ==
  IF j > Len(sl) THEN <<>>
  ELSE (IF ~(\E l \in DOMAIN sl[i] : sl[i][l] > sl[j][l])
        THEN <<j>> ELSE <<>>) \o MaskFrom(sl, i, j + 1)

\* The mask with np.all in place of np.any.
mask_all_greater(g) ==
  LET sl == state_list(g)
  IN [i \in StateIdx(g) |->
        SelectSeq(Idxs(Len(sl)),
                  LAMBDA j : ~(\A l \in DOMAIN sl[i] : sl[i][l] > sl[j][l]))]

\* Unilateral._gen_mask: for each state the states reachable from it.
mask(g) == LET sl == state_list(g) IN [i \in StateIdx(g) |-> MaskFrom(sl, i, 1)]

\* ------------------------------------------------------ transition matrix
\* State of the start node of an edge: a tumor is always in state 1.
StartState(g, cur, ed) == IF IsTumor(g, ed.s) THEN 1 ELSE cur[ed.s]

RECURSIVE StayNum(_, _, _, _)
\* prod over the incoming edges of (1 - weight)^state, numerator over
\* PD^(number of incoming edges).
StayNum(g, tt, cur, inc) ==
  IF inc = <<>> THEN 1
  ELSE (IF StartState(g, cur, g.edges[Head(inc)]) = 1
        THEN PD - tt[Head(inc)] ELSE PD) * StayNum(g, tt, cur, Tail(inc))

\* node_trans_prob(in_states, in_weights): <<P(stay healthy), P(become
\* involved)>> of a healthy LNL, indexed by the new state 0 or 1, numerators
\* over PD^Len(inc).
node_trans_prob(g, tt, cur, inc) ==
  LET stay == StayNum(g, tt, cur, inc)
  IN [s \in 0..1 |-> IF s = 0 THEN stay ELSE Pow(PD, Len(inc)) - stay]

RECURSIVE TransProd(_, _, _, _, _)
TransProd(g, tt, cur, newstate, l) ==
  IF l > g.nl THEN 1
  ELSE (IF cur[l] = 0
        THEN node_trans_prob(g, tt, cur, Inc(g, l))[newstate[l]]
        ELSE Pow(PD, Len(Inc(g, l)))) * TransProd(g, tt, cur, newstate, l + 1)

RECURSIVE TransProdAll(_, _, _, _, _)
TransProdAll(g, tt, cur, newstate, l) ==
  IF l > g.nl THEN 1
  ELSE node_trans_prob(g, tt, cur, Inc(g, l))[newstate[l]]
         * TransProdAll(g, tt, cur, newstate, l + 1)

\* comp_transition_prob without the test "if not lnl.state".
comp_transition_prob_all(g, tt, cur, newstate) ==
  TransProdAll(g, tt, cur, newstate, 1)

\* Unilateral.comp_transition_prob with the model in state cur.
comp_transition_prob(g, tt, cur, newstate) == TransProd(g, tt, cur, newstate, 1)

\* Every state may follow every state.
InMaskAny(m, i, j) == TRUE

\* j in self.mask[i]
InMask(m, i, j) == \E k \in 1..Len(m[i]) : m[i][k] = j

RECURSIVE RowFrom(_, _, _, _, _, _)
RowFrom(g, tt, sl, m, i, j) ==
  IF j > Len(sl) THEN <<>>
  ELSE <<IF InMask(m, i, j) THEN comp_transition_prob(g, tt, sl[i], sl[j]) ELSE 0>>
         \o RowFrom(g, tt, sl, m, i, j + 1)

RECURSIVE RowsFrom(_, _, _, _, _)
RowsFrom(g, tt, sl, m, i) ==
  IF i > Len(sl) THEN <<>>
  ELSE <<RowFrom(g, tt, sl, m, i, 1)>> \o RowsFrom(g, tt, sl, m, i + 1)

\* Unilateral._gen_A on a fresh zero matrix.
gen_A(g, tt) == RowsFrom(g, tt, state_list(g), mask(g), 1)

\* Node.trans_prob() of LNL l: <<P(new state 0), P(new state 1)>>; an involved
\* LNL stays involved.  Numerators over PD^Len(inc).
Node_trans_prob(g, tt, cur, l) ==
  IF cur[l] = 1
  THEN [s \in 0..1 |-> IF s = 0 THEN 0 ELSE Pow(PD, Len(Inc(g, l)))]
  ELSE node_trans_prob(g, tt, cur, Inc(g, l))

RECURSIVE SysTransProd(_, _, _, _, _)
SysTransProd(g, tt, cur, newstate, l) ==
  IF l > g.nl THEN 1
  ELSE Node_trans_prob(g, tt, cur, l)[newstate[l]]
         * SysTransProd(g, tt, cur, newstate, l + 1)

\* System.trans_prob(newstate) with the system in state cur.
trans_prob(g, tt, cur, newstate) == SysTransProd(g, tt, cur, newstate, 1)

RECURSIVE SysRowFrom(_, _, _, _, _, _)
SysRowFrom(g, tt, sl, m, i, j) ==
  IF j > Len(sl) THEN <<>>
  ELSE <<IF InMask(m, i, j) THEN trans_prob(g, tt, sl[i], sl[j]) ELSE 0>>
         \o SysRowFrom(g, tt, sl, m, i, j + 1)

RECURSIVE SysRowsFrom(_, _, _, _, _)
SysRowsFrom(g, tt, sl, m, i) ==
  IF i > Len(sl) THEN <<>>
  ELSE <<SysRowFrom(g, tt, sl, m, i, 1)>> \o SysRowsFrom(g, tt, sl, m, i + 1)

\* System._gen_A: the cells outside the mask are never written and stay 0.
Sys_gen_A(g, tt) == SysRowsFrom(g, tt, state_list(g), mask(g), 1)

\* The state the loop of _gen_A leaves the model in.
LastState(g) == state_list(g)[NumStates(g)]

\* ------------------------------------------------------------ time steps
RECURSIVE DotCol(_, _, _, _)
\* sum over i of v[i] * M[i][j]
DotCol(v, M, j, i) ==
  IF i > Len(v) THEN 0 ELSE v[i] * M[i][j] + DotCol(v, M, j, i + 1)

RECURSIVE VecMatFrom(_, _, _)
VecMatFrom(v, M, j) ==
  IF j > Len(M[1]) THEN <<>>
  ELSE <<DotCol(v, M, j, 1)>> \o VecMatFrom(v, M, j + 1)

\* v @ M
VecMat(v, M) == VecMatFrom(v, M, 1)

RECURSIVE MatMulFrom(_, _, _)
MatMulFrom(M, N, i) ==
  IF i > Len(M) THEN <<>> ELSE <<VecMat(M[i], N)>> \o MatMulFrom(M, N, i + 1)

\* M @ N
MatMul(M, N) == MatMulFrom(M, N, 1)

RECURSIVE UnitVec(_, _, _)
UnitVec(n, k, i) ==
  IF i > n THEN <<>> ELSE <<IF i = k THEN 1 ELSE 0>> \o UnitVec(n, k, i + 1)

RECURSIVE EyeFrom(_, _)
EyeFrom(n, i) == IF i > n THEN <<>> ELSE <<UnitVec(n, i, 1)>> \o EyeFrom(n, i + 1)

RECURSIVE mat_pow(_, _)
\* numpy.linalg.matrix_power for n >= 0 (each power is computed once)
mat_pow(M, n) ==
  IF n = 0 THEN EyeFrom(Len(M), 1)
  ELSE CHOOSE R \in {MatMul(P, M) : P \in {mat_pow(M, n - 1)}} : TRUE

\* The all-healthy start distribution of _evolve.
start_state(g) == UnitVec(NumStates(g), 1, 1)

\* _evolve with t_first + 1 in place of t_first.
evolve_one_more(g, A, t_first) == VecMat(start_state(g), mat_pow(A, t_first + 1))

\* Unilateral._evolve(t_first) with t_last = None: numerators over DA^t_first.
evolve(g, A, t_first) == VecMat(start_state(g), mat_pow(A, t_first))

\* ---------------------------------------------------------------- setters
\* for i, edge in enumerate(edges): edge.t = new[i] -- the writes made before
\* the loop ends or new[i] raises IndexError.
AssignLoop(tt, idxs, new) ==
  [e \in DOMAIN tt |->
     IF \E k \in 1..Min(Len(idxs), Len(new)) : idxs[k] = e
     THEN new[CHOOSE k \in 1..Min(Len(idxs), Len(new)) : idxs[k] = e]
     ELSE tt[e]]

LoopRaises(idxs, new) == Len(new) < Len(idxs)

SliceTo(s, n) == SubSeq(s, 1, Min(n, Len(s)))
SliceFrom(s, n) == SubSeq(s, n + 1, Len(s))

\* The effect of Unilateral.spread_probs = new on (t, _A): <<t, _A, raised>>.
spread_probs_setter(g, tt, a, new) ==
  LET nb == Len(base_edges(g))
      b == SliceTo(new, nb)
      tr == SliceFrom(new, nb)
      t1 == AssignLoop(tt, base_edges(g), b)
  IN IF LoopRaises(base_edges(g), b) THEN <<t1, a, TRUE>>
     ELSE <<AssignLoop(t1, trans_edges(g), tr), Absent,
            LoopRaises(trans_edges(g), tr)>>

\* The property Unilateral.A: <<_A after the read, state after the read>>.
read_A(g, tt, a, st) ==
  IF IsSet(a) THEN <<a, st>> ELSE <<Some(gen_A(g, tt)), LastState(g)>>

\* ---------------------------------------------------- modalities, B
\* np.array([[sp, 1 - sn], [1 - sp, sn]]): row obs, column state.
modality_table(sp, sn) == <<<<sp, PD - sn>>, <<PD - sp, sn>>>>

\* Two numbers that are probabilities.
spsn_are_probabilities(spsn) ==
  /\ Len(spsn) = 2
  /\ \A k \in 1..Len(spsn) : spsn[k] >= 0 /\ spsn[k] <= PD

\* has_len_2 and is_above_lb and is_below_ub of the modalities setter.
spsn_ok(spsn) ==
  /\ Len(spsn) = 2
  /\ \A k \in 1..Len(spsn) : 2 * spsn[k] >= PD /\ spsn[k] <= PD

\* dict[name] = table on an insertion-ordered dict held as a sequence.
DictPut(d, name, table) ==
  IF \E k \in 1..Len(d) : d[k].name = name
  THEN [k \in 1..Len(d) |-> IF d[k].name = name
                             THEN [name |-> name, table |-> table] ELSE d[k]]
  ELSE Append(d, [name |-> name, table |-> table])

\* The loop of the modalities setter from entry k on: <<tables, raised>>.
RECURSIVE modalities_loop(_, _, _)
modalities_loop(modality_spsn, k, tables) ==
  IF k > Len(modality_spsn) THEN <<tables, "no">>
  ELSE IF ~spsn_ok(modality_spsn[k].spsn) THEN <<tables, "ValueError">>
  ELSE modalities_loop(modality_spsn, k + 1,
         DictPut(tables, modality_spsn[k].name,
                 modality_table(modality_spsn[k].spsn[1],
                                modality_spsn[k].spsn[2])))

\* Unilateral.modalities = modality_spsn: <<_modality_tables, raised>>.
modalities_setter(modality_spsn) == modalities_loop(modality_spsn, 1, <<>>)

\* Row i of _obs_list for n_obs modalities and L LNLs.
obs_row(i, n_obs, L) ==
  LET tmp == change_base(i, 2, FALSE, n_obs * L)
  IN [c \in 1..(n_obs * L) |->
        tmp[((c - 1) % n_obs) * L + ((c - 1) \div n_obs) + 1]]

RECURSIVE ObsRowsFrom(_, _, _)
ObsRowsFrom(i, n_obs, L) ==
  IF i >= Pow(2, n_obs * L) THEN <<>>
  ELSE <<obs_row(i, n_obs, L)>> \o ObsRowsFrom(i + 1, n_obs, L)

\* Unilateral._gen_obs_list
gen_obs_list(n_obs, L) == ObsRowsFrom(0, n_obs, L)

\* obs[lo:hi] of Python.
PySlice(s, lo, hi) == SubSeq(s, lo + 1, Min(hi, Len(s)))

\* Node.obs_prob(obs, obstable) of a node in state st.
obs_prob(st, obs, obstable) == obstable[obs + 1][st + 1]

RECURSIVE DiagProd(_, _, _, _)
DiagProd(state, diagnoses, obstable, l) ==
  IF l > Len(state) THEN 1
  ELSE obs_prob(state[l], diagnoses[l], obstable)
         * DiagProd(state, diagnoses, obstable, l + 1)

\* Unilateral.comp_observation_prob for the slices _gen_B cuts from obs, from
\* modality k on; the caller has checked that no slice has a wrong length.
RECURSIVE comp_observation_prob(_, _, _, _)
comp_observation_prob(state, obs, tables, k) ==
  IF k > Len(tables) THEN 1
  ELSE DiagProd(state,
                PySlice(obs, Len(state) * (k - 1), Len(state) * k),
                tables[k].table, 1)
         * comp_observation_prob(state, obs, tables, k + 1)

\* Some slice of obs is not as long as the model has LNLs.
ObsLengthRaises(L, obs, tables) ==
  \E k \in 1..Len(tables) :
     Len(PySlice(obs, L * (k - 1), L * k)) # L

RECURSIVE BRowFrom(_, _, _, _)
BRowFrom(state, ol, tables, j) ==
  IF j > Len(ol) THEN <<>>
  ELSE <<comp_observation_prob(state, ol[j], tables, 1)>>
         \o BRowFrom(state, ol, tables, j + 1)

RECURSIVE BRowsFrom(_, _, _, _)
BRowsFrom(sl, ol, tables, i) ==
  IF i > Len(sl) THEN <<>>
  ELSE <<BRowFrom(sl[i], ol, tables, 1)>> \o BRowsFrom(sl, ol, tables, i + 1)

RECURSIVE ZeroRows(_, _)
ZeroRows(n, m) == IF n = 0 THEN <<>> ELSE <<Zeros(m)>> \o ZeroRows(n - 1, m)

\* Unilateral._gen_B with _B absent: <<_B, raised, state left on the LNLs>>.
\* The zero matrix is stored before the loop, so it stays when the first
\* entry raises.  Numerators over PD^(Len(tables) * L).
gen_B(g, tables, ol) ==
  IF ObsLengthRaises(g.nl, ol[1], tables)
  THEN <<ZeroRows(NumStates(g), Len(ol)), "ValueError", state_list(g)[1]>>
  ELSE <<BRowsFrom(state_list(g), ol, tables, 1), "no", LastState(g)>>

\* The property Unilateral.obs_list: <<_obs_list, raised>>.
read_obs_list(g, mt, ol) ==
  IF IsSet(ol) THEN <<ol, "no">>
  ELSE IF ~IsSet(mt) THEN <<ol, "AttributeError">>
  ELSE <<Some(gen_obs_list(Len(Val(mt)), g.nl)), "no">>

\* The property Unilateral.B: <<_obs_list, _B, raised, state of the LNLs>>.
read_B(g, mt, ol, b, st) ==
  IF IsSet(b) THEN <<ol, b, "no", st>>
  ELSE LET o == read_obs_list(g, mt, ol)
       IN IF o[2] # "no" THEN <<ol, b, o[2], st>>
          ELSE CHOOSE r \in {<<o[1], Some(gb[1]), gb[2], gb[3]>> :
                              gb \in {gen_B(g, Val(mt), Val(o[1]))}} : TRUE

\* ------------------------------------------------------------ data, C, f
\* A missing entry (NaN) of a patient's row.
nan == 0 - 1

\* np.all(np.equal(obs, row, where=~np.isnan(row), out=ones)); an obs of
\* length 1 is broadcast over the row.
obs_matches(obs, row) ==
  \A c \in 1..Len(row) :
     row[c] = nan \/ obs[IF Len(obs) = 1 THEN 1 ELSE c] = row[c]

\* np.equal cannot broadcast obs into an output of the shape of row.
EncodeRaises(ol, table) ==
  table # <<>> /\ Len(ol[1]) # Len(table[1]) /\ Len(ol[1]) # 1

\* Column of tmp_C of one patient.
RECURSIVE EncodeFrom(_, _, _)
EncodeFrom(ol, row, j) ==
  IF j > Len(ol) THEN <<>>
  ELSE <<IF obs_matches(ol[j], row) THEN 1 ELSE 0>> \o EncodeFrom(ol, row, j + 1)

RECURSIVE EncodeAll(_, _, _)
EncodeAll(ol, table, i) ==
  IF i > Len(table) THEN <<>>
  ELSE <<EncodeFrom(ol, table[i], 1)>> \o EncodeAll(ol, table, i + 1)

\* The rank of a column in the lexicographic order np.unique sorts by.
RECURSIVE ColKey(_)
ColKey(col) ==
  IF col = <<>> THEN 0
  ELSE Head(col) * Pow(2, Len(col) - 1) + ColKey(Tail(col))

Count(cols, c) == Cardinality({k \in 1..Len(cols) : cols[k] = c})

\* np.unique(tmp_C, axis=1, return_counts=True): <<columns, counts>>.
RECURSIVE UniqueFrom(_, _)
UniqueFrom(cols, rest) ==
  IF rest = {} THEN <<<<>>, <<>>>>
  ELSE LET c == CHOOSE x \in rest : \A y \in rest : ColKey(x) <= ColKey(y)
           r == UniqueFrom(cols, rest \ {c})
       IN <<<<c>> \o r[1], <<Count(cols, c)>> \o r[2]>>

Ones(n) == [k \in 1..n |-> 1]

\* Unilateral._gen_C for one table: <<C[t_stage], f[t_stage]>>.
gen_C(ol, table, delete_ones, aggregate_duplicates) ==
  LET all == EncodeAll(ol, table, 1)
      kept == IF delete_ones
              THEN SelectSeq(all, LAMBDA col : SumSeq(col) # Len(ol))
              ELSE all
  IN IF aggregate_duplicates
     THEN UniqueFrom(kept, {kept[k] : k \in 1..Len(kept)})
     ELSE <<kept, Ones(Len(table))>>

\* data.loc[data[("Info", "T-stage")] == stage, modalities].values
RECURSIVE JoinDiag(_, _, _)
JoinDiag(patient, tables, k) ==
  IF k > Len(tables) THEN <<>>
  ELSE patient.diag[tables[k].name] \o JoinDiag(patient, tables, k + 1)

RECURSIVE StageTable(_, _, _, _)
StageTable(data, stage, tables, i) ==
  IF i > Len(data) THEN <<>>
  ELSE (IF data[i].stage = stage THEN <<JoinDiag(data[i], tables, 1)>> ELSE <<>>)
         \o StageTable(data, stage, tables, i + 1)

\* A registered modality has no columns in the data frame.
DataKeyError(data, tables) ==
  \E i \in 1..Len(data), k \in 1..Len(tables) :
     tables[k].name \notin DOMAIN data[i].diag

\* list(set(data[("Info", "T-stage")])): the order of a set is arbitrary and
\* the loop over it stores the same dictionary in every order.
RECURSIVE StagesOf(_, _)
StagesOf(data, i) ==
  IF i > Len(data) THEN <<>>
  ELSE LET rest == StagesOf(data, i + 1)
       IN <<data[i].stage>> \o SelectSeq(rest, LAMBDA x : x # data[i].stage)

DictSet(d, key, v) ==
  [k \in DOMAIN d \cup {key} |-> IF k = key THEN v ELSE d[k]]

EmptyDict == [k \in {} |-> 0]

\* The HMM loop of load_data over t_stages[k..]: <<_C, _f, raised>>.
RECURSIVE load_loop(_, _, _, _, _, _, _, _, _)
load_loop(data, t_stages, k, tables, ol, C, f, delete_ones, aggregate_duplicates) ==
  IF k > Len(t_stages) THEN <<C, f, "no">>
  ELSE CHOOSE r \in
         {IF EncodeRaises(ol, table) THEN <<C, f, "ValueError">>
          ELSE CHOOSE q \in
                 {load_loop(data, t_stages, k + 1, tables, ol,
                            DictSet(C, t_stages[k], cf[1]),
                            DictSet(f, t_stages[k], cf[2]),
                            delete_ones, aggregate_duplicates) :
                    cf \in {gen_C(ol, table, delete_ones, aggregate_duplicates)}}
                 : TRUE
            : table \in {StageTable(data, t_stages[k], tables, 1)}} : TRUE

\* Unilateral.load_data(data, t_stages, modality_spsn, "HMM", gen_C_kwargs):
\* the attributes it leaves and the exception it raises.
load_data(g, mt, ol, C, f, data, t_stages, modality_spsn, delete_ones, aggregate_duplicates) ==
  LET set == modalities_setter(Val(modality_spsn))
      mt1 == IF IsSet(modality_spsn) THEN Some(set[1]) ELSE mt
      unch == [mt |-> mt1, ol |-> ol, C |-> C, f |-> f]
  IN IF IsSet(modality_spsn) /\ set[2] # "no"
       THEN unch @@ [raised |-> set[2]]
     ELSE IF ~IsSet(modality_spsn) /\ (~IsSet(mt) \/ Val(mt) = <<>>)
       THEN unch @@ [raised |-> "ValueError"]
     ELSE LET stages == IF IsSet(t_stages) THEN Val(t_stages)
                        ELSE StagesOf(data, 1)
          IN IF stages = <<>> THEN unch @@ [raised |-> "no"]
             ELSE IF DataKeyError(data, Val(mt1))
               THEN unch @@ [raised |-> "KeyError"]
             ELSE LET ol1 == read_obs_list(g, mt1, ol)[1]
                      r == load_loop(data, stages, 1, Val(mt1), Val(ol1),
                                     IF IsSet(C) THEN Val(C) ELSE EmptyDict,
                                     IF IsSet(f) THEN Val(f) ELSE EmptyDict,
                                     delete_ones, aggregate_duplicates)
                  IN [mt |-> mt1, ol |-> ol1, C |-> Some(r[1]), f |-> Some(r[2]),
                      raised |-> r[3]]

\* ----------------------------------------------------------- likelihood
\* Unilateral._spread_probs_are_valid: "ValueError", "False" or "True".
spread_probs_are_valid(g, tt, new_spread_probs) ==
  IF Len(new_spread_probs) # Len(spread_probs_getter(g, tt)) THEN "ValueError"
  ELSE IF \E k \in 1..Len(new_spread_probs) : 0 > new_spread_probs[k] THEN "False"
  ELSE IF \E k \in 1..Len(new_spread_probs) : new_spread_probs[k] > PD THEN "False"
  ELSE "True"

\* The loop over the diagnose times from stage k on: <<outcome, state_probs>>
\* with state_probs the list of _evolve(diag_time) of the stages passed.
RECURSIVE diag_loop(_, _, _, _, _, _)
diag_loop(g, A, t_stages, diag_times, max_t, k) ==
  IF k > Len(t_stages) THEN <<"no", <<>>>>
  ELSE IF t_stages[k] \notin DOMAIN diag_times THEN <<"KeyError", <<>>>>
  ELSE IF diag_times[t_stages[k]] > max_t THEN <<"neginf", <<>>>>
  ELSE CHOOSE r \in
         {<<rest[1], <<sp>> \o rest[2]>> :
            sp \in {evolve(g, A, diag_times[t_stages[k]])},
            rest \in {diag_loop(g, A, t_stages, diag_times, max_t, k + 1)}} : TRUE

RECURSIVE DotSeq(_, _)
DotSeq(v, w) == IF v = <<>> THEN 0 ELSE Head(v) * Head(w) + DotSeq(Tail(v), Tail(w))

RECURSIVE TimesCols(_, _, _)
TimesCols(v, cols, k) ==
  IF k > Len(cols) THEN <<>>
  ELSE <<DotSeq(v, cols[k])>> \o TimesCols(v, cols, k + 1)

\* The loop "p = state_probs[stage] @ self.B @ self.C[stage];
\* llh += self.f[stage] @ np.log(p)" from stage k on: <<raised, terms>>.
RECURSIVE llh_loop(_, _, _, _, _, _)
llh_loop(t_stages, state_probs, B, C, f, k) ==
  IF k > Len(t_stages) THEN <<"no", <<>>>>
  ELSE IF ~IsSet(C) THEN <<"AttributeError", <<>>>>
  ELSE IF t_stages[k] \notin DOMAIN Val(C) THEN <<"KeyError", <<>>>>
  ELSE LET cols == Val(C)[t_stages[k]]
       IN IF cols # <<>> /\ Len(cols[1]) # Len(B[1]) THEN <<"ValueError", <<>>>>
          ELSE CHOOSE r \in
            {IF Len(Val(f)[t_stages[k]]) # Len(p) THEN <<"ValueError", <<>>>>
             ELSE IF rest[1] # "no" THEN rest
             ELSE <<"no", <<[stage |-> t_stages[k], f |-> Val(f)[t_stages[k]],
                             p |-> p]>> \o rest[2]>> :
               p \in {TimesCols(VecMat(state_probs[k], B), cols, 1)},
               rest \in {llh_loop(t_stages, state_probs, B, C, f, k + 1)}} : TRUE

\* Unilateral.log_likelihood(spread_probs, t_stages, diag_times, max_t,
\* time_dists=None, mode="HMM"): the attributes it leaves and its outcome.
\* A sum that contains log(0) is minus infinity.
log_likelihood(g, tt, a, st, mt, ol, b, C, f, spread_probs, t_stages, diag_times, max_t) ==
  LET same == [t |-> tt, A |-> a, st |-> st, ol |-> ol, B |-> b]
      valid == spread_probs_are_valid(g, tt, spread_probs)
      set == spread_probs_setter(g, tt, a, spread_probs)
      written == [same EXCEPT !.t = set[1], !.A = set[2]]
  IN IF valid = "ValueError"
       THEN same @@ [raised |-> "ValueError", result |-> "none"]
     ELSE IF valid = "False"
       THEN same @@ [raised |-> "no", result |-> "neginf"]
     ELSE IF ~IsSet(t_stages)
       THEN written @@ [raised |-> "AttributeError", result |-> "none"]
     ELSE IF ~IsSet(diag_times)
       THEN written @@ [raised |-> "ValueError", result |-> "none"]
     ELSE IF Cardinality(DOMAIN Val(diag_times)) # Len(Val(t_stages))
       THEN written @@ [raised |-> "ValueError", result |-> "none"]
     ELSE CHOOSE res0 \in {CHOOSE res \in
       {LET evolved == [written EXCEPT
                          !.A = IF d[2] # <<>> THEN A ELSE set[2],
                          !.st = IF d[2] # <<>> THEN LastState(g) ELSE st]
        IN IF d[1] = "KeyError"
             THEN evolved @@ [raised |-> "KeyError", result |-> "none"]
           ELSE IF d[1] = "neginf"
             THEN evolved @@ [raised |-> "no", result |-> "neginf"]
           ELSE IF Val(t_stages) = <<>>
             THEN evolved @@ [raised |-> "no", result |-> "value", terms |-> <<>>]
           ELSE CHOOSE res2 \in
             {LET read == [evolved EXCEPT !.ol = rb[1], !.B = rb[2], !.st = rb[4]]
              IN IF rb[3] # "no"
                   THEN read @@ [raised |-> rb[3], result |-> "none"]
                 ELSE CHOOSE res3 \in
                   {IF l[1] # "no"
                      THEN read @@ [raised |-> l[1], result |-> "none"]
                    ELSE IF \E k \in 1..Len(l[2]) :
                              \E c \in 1..Len(l[2][k].p) : l[2][k].p[c] = 0
                      THEN read @@ [raised |-> "no", result |-> "neginf"]
                    ELSE read @@ [raised |-> "no", result |-> "value",
                                  terms |-> l[2]] :
                      l \in {llh_loop(Val(t_stages), d[2], Val(rb[2]), C, f, 1)}}
                   : TRUE :
                rb \in {read_B(g, mt, ol, b, evolved.st)}} : TRUE :
          d \in {diag_loop(g, Val(A), Val(t_stages), Val(diag_times), max_t, 1)}}
         : TRUE
       : A \in {Some(gen_A(g, set[1]))}} : TRUE

\* ------------------------------------------------------------------ risk
\* A masked entry (None) of a diagnosis or of an involvement pattern.
None == 0 - 1

\* "for mod in self._modality_tables: obs = np.append(obs, ...)" from
\* modality k on: the given diagnosis of a modality, or L times None.
RECURSIVE risk_obs(_, _, _, _)
risk_obs(tables, diagnoses, L, k) ==
  IF k > Len(tables) THEN <<>>
  ELSE (IF tables[k].name \in DOMAIN diagnoses
        THEN diagnoses[tables[k].name] ELSE [c \in 1..L |-> None])
       \o risk_obs(tables, diagnoses, L, k + 1)

ScaleVec(c, v) == [k \in 1..Len(v) |-> c * v[k]]
AddVec(v, w) == [k \in 1..Len(v) |-> v[k] + w[k]]

\* time_dist @ self._evolve(t_last=len(time_dist) - 1) from time step i on,
\* state being the distribution at time i - 1.  time_dist is held as weights
\* w (the distribution is w / sum(w)); the numerators are over
\* sum(w) * DA^(len(w) - 1).
RECURSIVE marginalize(_, _, _, _, _)
marginalize(da, w, state, A, i) ==
  IF i > Len(w) THEN Zeros(Len(state))
  ELSE CHOOSE r \in
    {AddVec(ScaleVec(w[i] * Pow(da, Len(w) - i), state), rest) :
       rest \in {marginalize(da, w, VecMat(state, A), A, i + 1)}} : TRUE

\* np.all(np.equal(pattern, row, where=(pattern != None), out=ones)): an
\* operand of length 1 is broadcast over the other.
risk_matches(pattern, row) ==
  \A c \in 1..(IF Len(pattern) = 1 THEN Len(row) ELSE Len(pattern)) :
     LET p == pattern[IF Len(pattern) = 1 THEN 1 ELSE c]
     IN p = None \/ p = row[IF Len(row) = 1 THEN 1 ELSE c]

\* np.equal cannot broadcast the two operands into the output, which has the
\* shape of the first one.
EqualRaises(first, second) ==
  Len(second) # Len(first) /\ Len(second) # 1

\* cZ (or cX): entry i tells whether row i of the list matches the pattern.
RECURSIVE match_vector(_, _, _)
match_vector(pattern, list, i) ==
  IF i > Len(list) THEN <<>>
  ELSE <<IF risk_matches(pattern, list[i]) THEN 1 ELSE 0>>
         \o match_vector(pattern, list, i + 1)

\* Column x of cZ @ pZX with pZX = self.B.T * pX, from state x on.
RECURSIVE cZ_pZX(_, _, _, _)
cZ_pZX(cZ, B, pX, x) ==
  IF x > Len(pX) THEN <<>>
  ELSE <<DotSeq(cZ, [z \in 1..Len(cZ) |-> B[x][z] * pX[x]])>>
         \o cZ_pZX(cZ, B, pX, x + 1)

\* The part of risk that marginalizes over diagnoses not like cZ, which sums
\* over every complete observation.
posterior_all_obs(cZ, B, pX) == cZ_pZX(Ones(Len(cZ)), B, pX, 1)

\* "res = cZ @ pZX / (cZ @ pZ)": the numerators of res.
posterior(cZ, B, pX) == cZ_pZX(cZ, B, pX, 1)

\* Unilateral.risk(spread_probs, inv, diagnoses, diag_time, time_dist) in mode
\* "HMM": the attributes it leaves and its outcome.  res is num / den entry by
\* entry; 0 / 0 is nan.  With inv, the returned number is risk / den.
risk(g, tt, a, st, mt, ol, b, spread_probs, inv, diagnoses, diag_time, time_dist) ==
  LET same == [t |-> tt, A |-> a, st |-> st, ol |-> ol, B |-> b]
      set == IF IsSet(spread_probs)
             THEN spread_probs_setter(g, tt, a, Val(spread_probs))
             ELSE <<tt, a, FALSE>>
      written == [same EXCEPT !.t = set[1], !.A = set[2]]
      none == [raised |-> "no", result |-> "none"]
  IN IF set[3] THEN written @@ [none EXCEPT !.raised = "IndexError"]
     ELSE IF ~IsSet(mt) THEN written @@ [none EXCEPT !.raised = "AttributeError"]
     ELSE IF ~IsSet(diag_time) /\ ~IsSet(time_dist)
       THEN written @@ [none EXCEPT !.raised = "ValueError"]
     ELSE IF ~IsSet(diag_time) /\ Val(time_dist) = <<>>
       THEN [written EXCEPT !.A = read_A(g, set[1], set[2], st)[1],
                            !.st = read_A(g, set[1], set[2], st)[2]]
            @@ [none EXCEPT !.raised = "ValueError"]
     ELSE CHOOSE r0 \in {CHOOSE r1 \in {CHOOSE r2 \in
       {LET read == [written EXCEPT !.A = ra[1], !.st = rb[4],
                                    !.ol = rb[1], !.B = rb[2]]
            obs == risk_obs(Val(mt), diagnoses, g.nl, 1)
        IN IF rb[3] # "no" THEN read @@ [none EXCEPT !.raised = rb[3]]
           ELSE IF EqualRaises(obs, Val(rb[1])[1])
             THEN read @@ [none EXCEPT !.raised = "ValueError"]
           ELSE CHOOSE r3 \in
             {CHOOSE r4 \in
               {LET out == read @@ [raised |-> "no", obs |-> obs, cZ |-> cZ,
                                    num |-> num, den |-> den]
                IN IF ~IsSet(inv)
                     THEN out @@ [result |-> IF den = 0 THEN "nan" ELSE "vector"]
                   ELSE IF EqualRaises(state_list(g)[1], Val(inv))
                     THEN read @@ [none EXCEPT !.raised = "ValueError"]
                   ELSE out @@ [result |-> IF den = 0 THEN "nan" ELSE "number",
                                cX |-> match_vector(Val(inv), state_list(g), 1),
                                risk |-> DotSeq(
                                  match_vector(Val(inv), state_list(g), 1), num)] :
                  num \in {posterior(cZ, Val(rb[2]), pX)},
                  den \in {DotSeq(cZ, VecMat(pX, Val(rb[2])))}} : TRUE :
                cZ \in {match_vector(obs, Val(rb[1]), 1)}} : TRUE :
          rb \in {read_B(g, mt, ol, b, ra[2])}} : TRUE :
          pX \in {IF IsSet(diag_time) THEN evolve(g, Val(ra[1]), Val(diag_time))
                  ELSE marginalize(DA(g), Val(time_dist), start_state(g),
                                   Val(ra[1]), 1)}} : TRUE :
          ra \in {read_A(g, set[1], set[2], st)}} : TRUE

\* ------------------------------------------------ bilateral: edge sync
Sides == {"ipsi", "contra"}
OtherSide(side) == IF side = "ipsi" THEN "contra" ELSE "ipsi"

\* Edge.__eq__ of two edges, one of each side, that connect nodes of the same
\* names: objects compare by identity unless the class compares them by name.
edges_equal(eq, e1, e2) == eq = "by_name" /\ e1 = e2

\* The edges of both lists that set(this).intersection(other) holds.
edge_intersection(eq, this_edge_list, other_edge_list) ==
  {e1 \in this_edge_list : \E e2 \in other_edge_list : edges_equal(eq, e1, e2)}

\* The callback create_property_sync_callback(["spread_prob"], this, other).
create_property_sync_callback(this, other) == [this |-> this, other |-> other]

\* The callback lists init_edge_sync leaves on the edges of both lists.
init_edge_sync(eq, cbs, this_side, this_edge_list, other_edge_list) ==
  LET common == edge_intersection(eq, this_edge_list, other_edge_list)
      other_side == OtherSide(this_side)
  IN [side \in Sides |-> [e \in DOMAIN cbs[side] |->
        IF e \in common
        THEN Append(cbs[side][e],
                    create_property_sync_callback(<<side, e>>,
                                                  <<OtherSide(side), e>>))
        ELSE cbs[side][e]]]

tumor_edges(g) == {base_edges(g)[k] : k \in 1..Len(base_edges(g))}
lnl_edges(g) == {trans_edges(g)[k] : k \in 1..Len(trans_edges(g))}

\* The callbacks Bilateral.__init__ registers on the edges.
Bilateral_init(g, eq, tumor_spread_symmetric, lnl_spread_symmetric) ==
  LET none == [side \in Sides |-> [e \in EdgeIdx(g) |-> <<>>]]
      c1 == IF tumor_spread_symmetric
            THEN init_edge_sync(eq, none, "ipsi", tumor_edges(g), tumor_edges(g))
            ELSE none
  IN IF lnl_spread_symmetric
     THEN init_edge_sync(eq, c1, "ipsi", lnl_edges(g), lnl_edges(g))
     ELSE c1

\* setattr(edge, "_spread_prob", value): the values and the callbacks triggered.
set_private(sp, cbs, edge, value) ==
  [sp |-> [sp EXCEPT ![edge[1]][edge[2]] = value], triggered |-> <<>>]

\* edge.spread_prob = value: the setter is wrapped by helper.trigger, which
\* calls every callback of the edge after the setter has run.
set_spread_prob(sp, cbs, edge, value) ==
  [sp |-> [sp EXCEPT ![edge[1]][edge[2]] = value],
   triggered |-> cbs[edge[1]][edge[2]]]

\* edge.spread_prob (getter)
get_spread_prob(sp, edge) == sp[edge[1]][edge[2]]

\* A sync that stores the value through the public setter.
sync_via_setter(sp, cbs, cb) ==
  set_spread_prob(sp, cbs, cb.this, get_spread_prob(sp, cb.other))

\* sync() of create_property_sync_callback.
sync(sp, cbs, cb) ==
  set_private(sp, cbs, cb.this, get_spread_prob(sp, cb.other))

\* --------------------------------------------- bilateral: modality sync
DictDel(d, key) == [k \in DOMAIN d \ {key} |-> d[k]]

\* The first loop of the modality sync: add to other what it misses.
RECURSIVE sync_add(_, _, _)
sync_add(this, other, todo) ==
  IF todo = {} THEN other
  ELSE LET modality == CHOOSE m \in todo : TRUE
       IN sync_add(this,
                   IF modality \notin DOMAIN other
                   THEN DictSet(other, modality, this[modality]) ELSE other,
                   todo \ {modality})

\* sync() of create_modality_sync_callback: <<other, raised>>.  The second
\* loop deletes from other while it iterates over other.keys(): the step of
\* the iterator that follows a deletion raises RuntimeError.
modality_sync(this, other) ==
  LET added == sync_add(this, other, DOMAIN this)
      extra == DOMAIN added \ DOMAIN this
  IN IF extra = {} THEN {<<added, "no">>}
     ELSE {<<DictDel(added, m), "RuntimeError">> : m \in extra}

\* ------------------------------------------------------------- the inputs
InputProbs == {0 - 1, 3, PD + 1}

\* Arrays offered for n edges: of the right length, too short, too long.
ProbArrays(n) ==
  LET full == [1..n -> InputProbs]
  IN full
     \cup {SubSeq(a, 1, m) : a \in full, m \in {k \in 0..n : n - k <= MaxExtra}}
     \cup {a \o Zeros(k) : a \in full, k \in 1..MaxExtra}

\* The attributes of a Unilateral (or System) after __init__.
InitUnilateral ==
  /\ t = [e \in EdgeIdx(graph) |-> 0]
  /\ cachedA = Absent
  /\ lnlState = Zeros(graph.nl)
  /\ modality_tables = Absent
  /\ cached_obs_list = Absent
  /\ cachedB = Absent
  /\ dataC = Absent
  /\ dataF = Absent

\* No Bilateral model has been built.
NoBilateral ==
  /\ sym = Absent
  /\ edge_spread_prob = Absent
  /\ trigger_callbacks = Absent
  /\ pending = <<>>
  /\ runs = Absent
  /\ ipsi_modalities = Absent
  /\ contra_modalities = Absent
  /\ diag_time_dists = Absent
  /\ patient_data = Absent
  /\ bilateral_system = Absent

Init ==
  /\ cls \in {"Unilateral", "System"}
  /\ graph \in Graphs
  /\ InitUnilateral
  /\ NoBilateral
  /\ ret = [op |-> "init"]

\* Unilateral.base_probs = new
SetBaseProbs(new) ==
  /\ cls = "Unilateral"
  /\ t' = AssignLoop(t, base_edges(graph), new)
  /\ cachedA' = IF LoopRaises(base_edges(graph), new) THEN cachedA ELSE Absent
  /\ ret' = [op |-> "base_probs", len |-> Len(new), want |-> Len(base_edges(graph)),
             raised |-> IF LoopRaises(base_edges(graph), new)
                        THEN "IndexError" ELSE "no"]
  /\ UNCHANGED <<cls, graph, lnlState, nonParamVars>>

\* Unilateral.trans_probs = new
SetTransProbs(new) ==
  /\ cls = "Unilateral"
  /\ t' = AssignLoop(t, trans_edges(graph), new)
  /\ cachedA' = IF LoopRaises(trans_edges(graph), new) THEN cachedA ELSE Absent
  /\ ret' = [op |-> "trans_probs", len |-> Len(new), want |-> Len(trans_edges(graph)),
             raised |-> IF LoopRaises(trans_edges(graph), new)
                        THEN "IndexError" ELSE "no"]
  /\ UNCHANGED <<cls, graph, lnlState, nonParamVars>>

\* Unilateral.spread_probs = new
SetSpreadProbs(new) ==
  LET r == spread_probs_setter(graph, t, cachedA, new)
  IN /\ cls = "Unilateral"
     /\ t' = r[1]
     /\ cachedA' = r[2]
     /\ ret' = [op |-> "spread_probs", len |-> Len(new), want |-> NumEdges(graph),
                raised |-> IF r[3] THEN "IndexError" ELSE "no"]
     /\ UNCHANGED <<cls, graph, lnlState, nonParamVars>>

\* model.A
ReadA ==
  \E r \in {read_A(graph, t, cachedA, lnlState)} :
     /\ cls = "Unilateral"
     /\ cachedA' = r[1]
     /\ lnlState' = r[2]
     /\ ret' = [op |-> "A", raised |-> "no", val |-> Val(r[1])]
     /\ UNCHANGED <<cls, graph, t, nonParamVars>>

\* model._evolve(t_first)
Evolve(t_first) ==
  \E r \in {read_A(graph, t, cachedA, lnlState)} :
     /\ cls = "Unilateral"
     /\ cachedA' = r[1]
     /\ lnlState' = r[2]
     /\ ret' = [op |-> "_evolve", t_first |-> t_first,
                val |-> evolve(graph, Val(r[1]), t_first)]
     /\ UNCHANGED <<cls, graph, t, nonParamVars>>

\* System.set_theta(theta, mode)
SysSetTheta(theta, mode) ==
  /\ cls = "System"
  /\ IF Len(theta) # NumEdges(graph)
     THEN /\ ret' = [op |-> "set_theta", len |-> Len(theta),
                     want |-> NumEdges(graph), raised |-> "ValueError"]
          /\ UNCHANGED <<t, cachedA, lnlState>>
     ELSE /\ t' = [e \in EdgeIdx(graph) |-> theta[e]]
          /\ ret' = [op |-> "set_theta", len |-> Len(theta),
                     want |-> NumEdges(graph), raised |-> "no"]
          /\ IF mode = "HMM"
             THEN /\ cachedA' = Some(Sys_gen_A(graph, t'))
                  /\ lnlState' = LastState(graph)
             ELSE UNCHANGED <<cachedA, lnlState>>
  /\ UNCHANGED <<cls, graph, nonParamVars>>

\* system.A
SysReadA ==
  /\ cls = "System"
  /\ ret' = IF IsSet(cachedA)
            THEN [op |-> "A", raised |-> "no", val |-> Val(cachedA)]
            ELSE [op |-> "A", raised |-> "AttributeError"]
  /\ UNCHANGED <<cls, graph, t, cachedA, lnlState, nonParamVars>>

Next ==
  \/ \E theta \in ProbArrays(NumEdges(graph)), mode \in {"HMM", "BN"} :
        SysSetTheta(theta, mode)
  \/ SysReadA
  \/ \E new \in ProbArrays(Len(base_edges(graph))) : SetBaseProbs(new)
  \/ \E new \in ProbArrays(Len(trans_edges(graph))) : SetTransProbs(new)
  \/ \E new \in ProbArrays(NumEdges(graph)) : SetSpreadProbs(new)
  \/ ReadA
  \/ \E t_first \in 0..MaxT : Evolve(t_first)

Spec == Init /\ [][Next]_vars

\* --------------------------------------- modalities and observation matrix
ModNames == <<"CT", "MRI">>
SpsnInputs == {<<PD - 2, PD - 1>>, <<PD, PD>>, <<3, PD - 1>>}

ModalityInputs ==
  UNION {{[k \in 1..n |-> [name |-> ModNames[k], spsn |-> f[k]]] :
            f \in [1..n -> SpsnInputs]} : n \in 0..Len(ModNames)}

InitB ==
  /\ cls = "Unilateral"
  /\ graph \in {GraphOneLnl, GraphChain}
  /\ InitUnilateral
  /\ NoBilateral
  /\ ret = [op |-> "init"]

\* model.modalities = modality_spsn
SetModalities(modality_spsn) ==
  \E r \in {modalities_setter(modality_spsn)} :
     /\ modality_tables' = Some(r[1])
     /\ ret' = [op |-> "modalities", modality_spsn |-> modality_spsn, raised |-> r[2]]
     /\ UNCHANGED <<cls, graph, t, cachedA, lnlState, cached_obs_list, cachedB, dataVars,
                  syncVars, modVars, likVars>>

\* model.obs_list
ReadObsList ==
  \E r \in {read_obs_list(graph, modality_tables, cached_obs_list)} :
     /\ cached_obs_list' = r[1]
     /\ ret' = IF r[2] = "no"
               THEN [op |-> "obs_list", raised |-> "no", val |-> Val(r[1])]
               ELSE [op |-> "obs_list", raised |-> r[2]]
     /\ UNCHANGED <<cls, graph, t, cachedA, lnlState, modality_tables, cachedB, dataVars,
                  syncVars, modVars, likVars>>

\* model.B
ReadB ==
  \E r \in {read_B(graph, modality_tables, cached_obs_list, cachedB, lnlState)} :
     /\ cached_obs_list' = r[1]
     /\ cachedB' = r[2]
     /\ lnlState' = r[4]
     /\ ret' = IF r[3] = "no"
               THEN [op |-> "B", raised |-> "no", val |-> Val(r[2])]
               ELSE [op |-> "B", raised |-> r[3]]
     /\ UNCHANGED <<cls, graph, t, cachedA, modality_tables, dataVars, syncVars, modVars, likVars>>

NextB ==
  \/ \E modality_spsn \in ModalityInputs : SetModalities(modality_spsn)
  \/ ReadObsList
  \/ ReadB

SpecB == InitB /\ [][NextB]_vars

\* ------------------------------------------------- data and log-likelihood
MaxDiag == 2

\* Rows of a data frame with the columns of the modalities "CT" and "MRI".
Patient(stage, row) ==
  [stage |-> stage,
   diag |-> [m \in {"CT", "MRI"} |-> IF m = "CT" THEN row ELSE Zeros(Len(row))]]

DataInputs(L) ==
  {<<Patient("early", Ones(L)), Patient("early", Ones(L)),
     Patient("late", Zeros(L))>>,
   <<Patient("early", Zeros(L)), Patient("early", <<nan>> \o Ones(L - 1)),
     Patient("early", Ones(L))>>}

SpsnForData ==
  {Absent, Some(<<[name |-> "CT", spsn |-> <<PD - 2, PD - 1>>]>>)}

\* modality_spsn with, for a model with one LNL, a CT and an MRI as well.
SpsnForDataC(L) ==
  SpsnForData
  \cup (IF L = 1
        THEN {Some(<<[name |-> "CT", spsn |-> <<PD - 2, PD - 1>>],
                     [name |-> "MRI", spsn |-> <<PD - 1, PD - 1>>]>>)}
        ELSE {})

\* Valid, below 0, above 1, too short, too long.
LlhArrays(n) ==
  {[k \in 1..n |-> 3], [k \in 1..n |-> IF k = 1 THEN 0 - 1 ELSE 3],
   [k \in 1..n |-> IF k = n THEN PD + 1 ELSE 3],
   [k \in 1..(n - 1) |-> 3], [k \in 1..(n + 1) |-> 3]}

StageLists == {Absent, Some(<<"early">>), Some(<<"early", "late">>)}

DiagTimeInputs ==
  {Absent} \cup
  {Some(d) : d \in [{"early"} -> {1, MaxDiag + 1}]
                   \cup {[s \in {"early", "late"} |->
                            IF s = "early" THEN 1 ELSE late] :
                          late \in {MaxDiag, MaxDiag + 1}}}

InitL ==
  /\ cls = "Unilateral"
  /\ graph \in {GraphOneLnl, GraphChain}
  /\ InitUnilateral
  /\ NoBilateral
  /\ ret = [op |-> "init"]

\* model.load_data(data, t_stages, modality_spsn, "HMM", gen_C_kwargs)
LoadData(data, t_stages, modality_spsn, delete_ones, aggregate_duplicates) ==
  \E r \in {load_data(graph, modality_tables, cached_obs_list, dataC, dataF,
                      data, t_stages, modality_spsn, delete_ones,
                      aggregate_duplicates)} :
     /\ modality_tables' = r.mt
     /\ cached_obs_list' = r.ol
     /\ dataC' = r.C
     /\ dataF' = r.f
     /\ ret' = [op |-> "load_data", data |-> data, t_stages |-> t_stages,
                delete_ones |-> delete_ones,
                aggregate_duplicates |-> aggregate_duplicates,
                raised |-> r.raised]
     /\ UNCHANGED <<cls, graph, t, cachedA, lnlState, cachedB, syncVars, modVars, likVars>>

\* model.log_likelihood(spread_probs, t_stages, diag_times, max_t)
LogLikelihood(spread_probs, t_stages, diag_times, max_t) ==
  \E r \in {log_likelihood(graph, t, cachedA, lnlState, modality_tables,
                           cached_obs_list, cachedB, dataC, dataF,
                           spread_probs, t_stages, diag_times, max_t)} :
     /\ t' = r.t
     /\ cachedA' = r.A
     /\ lnlState' = r.st
     /\ cached_obs_list' = r.ol
     /\ cachedB' = r.B
     /\ ret' = [op |-> "log_likelihood", len |-> Len(spread_probs),
                want |-> NumEdges(graph), spread_probs |-> spread_probs,
                t_stages |-> t_stages, diag_times |-> diag_times,
                max_t |-> max_t, raised |-> r.raised, result |-> r.result,
                terms |-> IF r.result = "value" THEN r.terms ELSE <<>>]
     /\ UNCHANGED <<cls, graph, modality_tables, dataVars, syncVars, modVars, likVars>>

NextL ==
  \/ \E data \in DataInputs(graph.nl), t_stages \in {Absent, Some(<<"early">>)},
        modality_spsn \in SpsnForData :
        LoadData(data, t_stages, modality_spsn, TRUE, TRUE)
  \/ \E spread_probs \in LlhArrays(NumEdges(graph)), t_stages \in StageLists,
        diag_times \in DiagTimeInputs :
        LogLikelihood(spread_probs, t_stages, diag_times, MaxDiag)

SpecL == InitL /\ [][NextL]_vars

\* ------------------------------------------------------- loading of data
NextC ==
  \E data \in DataInputs(graph.nl), t_stages \in {Absent, Some(<<"early">>)},
     modality_spsn \in SpsnForDataC(graph.nl),
     delete_ones \in BOOLEAN, aggregate_duplicates \in BOOLEAN :
     LoadData(data, t_stages, modality_spsn, delete_ones, aggregate_duplicates)

SpecC == InitL /\ [][NextC]_vars

\* ---------------------------------------------- Bilateral: edge sync
MaxRuns == 3
SyncProbs == {3, 7}

InitSync ==
  /\ cls = "Bilateral"
  /\ graph \in {GraphChain, GraphTwoTumors}
  /\ InitUnilateral
  /\ sym \in [edge_eq : {"identity", "by_name"},
              tumor_spread_symmetric : BOOLEAN,
              lnl_spread_symmetric : BOOLEAN]
  /\ edge_spread_prob = [side \in Sides |-> [e \in EdgeIdx(graph) |-> 0]]
  /\ trigger_callbacks = Bilateral_init(graph, sym.edge_eq,
                                        sym.tumor_spread_symmetric,
                                        sym.lnl_spread_symmetric)
  /\ pending = <<>>
  /\ runs = [callback |-> [side \in Sides |-> [e \in EdgeIdx(graph) |-> 0]],
             setter |-> 0]
  /\ ipsi_modalities = Absent
  /\ contra_modalities = Absent
  /\ diag_time_dists = Absent
  /\ patient_data = Absent
  /\ bilateral_system = Absent
  /\ ret = [op |-> "init"]

\* model.<side>.graph.edges[e].spread_prob = p, up to the first callback
WriteEdge(side, e, p) ==
  \E r \in {set_spread_prob(edge_spread_prob, trigger_callbacks, <<side, e>>, p)} :
     /\ pending = <<>>
     /\ edge_spread_prob' = r.sp
     /\ pending' = r.triggered
     /\ runs' = [callback |-> [s \in Sides |-> [x \in EdgeIdx(graph) |-> 0]],
                 setter |-> 1]
     /\ ret' = [op |-> "spread_prob", side |-> side, e |-> e, p |-> p]
     /\ UNCHANGED <<cls, graph, uniVars, sym, trigger_callbacks, modVars, likVars>>

\* One pass of the loop "for callback in self.trigger_callbacks: callback()".
RunCallback ==
  /\ pending # <<>>
  /\ runs.setter < MaxRuns
  /\ \E r \in {sync(edge_spread_prob, trigger_callbacks, Head(pending))} :
        /\ edge_spread_prob' = r.sp
        /\ pending' = r.triggered \o Tail(pending)
        /\ runs' = [callback |->
                      [runs.callback EXCEPT
                         ![Head(pending).this[1]][Head(pending).this[2]] = @ + 1],
                    setter |-> runs.setter + Min(1, Len(r.triggered))]
  /\ UNCHANGED <<cls, graph, uniVars, sym, trigger_callbacks, modVars, likVars, ret>>

NextSync ==
  \/ \E side \in Sides, e \in EdgeIdx(graph), p \in SyncProbs : WriteEdge(side, e, p)
  \/ RunCallback

SpecSync == InitSync /\ [][NextSync]_vars /\ WF_vars(RunCallback)

IsTumorEdge(g, e) == e \in tumor_edges(g)
WriteDone == ret.op = "spread_prob" /\ pending = <<>>

\* C5: with tumor_spread_symmetric, once a write of p to a tumor edge of one
\* side has returned, the matching tumor edge of the other side reads p.
C5_MirrorReadsWrittenValue ==
  (sym.tumor_spread_symmetric /\ WriteDone /\ IsTumorEdge(graph, ret.e)) =>
     get_spread_prob(edge_spread_prob, <<OtherSide(ret.side), ret.e>>) = ret.p

\* C6: a write to an edge stores the value first, then calls each callback
\* registered on that edge exactly once and no other callback, calls no
\* further setter, and returns.
C6_Safety ==
  ret.op = "spread_prob" =>
     /\ get_spread_prob(edge_spread_prob, <<ret.side, ret.e>>) = ret.p
          \/ runs.callback[ret.side][ret.e] > 0
     /\ runs.setter = 1
     /\ \A side \in Sides, e \in EdgeIdx(graph) :
          /\ runs.callback[side][e] <= 1
          /\ <<side, e>> # <<ret.side, ret.e>> => runs.callback[side][e] = 0
     /\ pending = <<>> =>
          runs.callback[ret.side][ret.e] = Len(trigger_callbacks[ret.side][ret.e])

C6_SyncIsNonCyclic == [](C6_Safety) /\ (pending # <<>> ~> pending = <<>>)

C6_Witness ==
  /\ sym.edge_eq = "by_name" /\ sym.lnl_spread_symmetric
  /\ WriteDone /\ ~IsTumorEdge(graph, ret.e)
  /\ Len(trigger_callbacks[ret.side][ret.e]) = 1
  /\ runs.callback[ret.side][ret.e] = 1

\* ------------------------------------------ Bilateral: modality registry
RegNames == {"CT", "MRI"}
RegValues == {<<PD - 2, PD - 1>>, <<PD - 1, PD - 1>>, <<PD, PD>>}

InitMod ==
  /\ cls = "Bilateral"
  /\ graph = GraphOneLnl
  /\ InitUnilateral
  /\ sym \in [modalities_symmetric : BOOLEAN]
  /\ edge_spread_prob = Absent
  /\ trigger_callbacks = Absent
  /\ pending = <<>>
  /\ runs = Absent
  /\ ipsi_modalities = EmptyDict
  /\ contra_modalities = EmptyDict
  /\ diag_time_dists = Absent
  /\ patient_data = Absent
  /\ bilateral_system = Absent
  /\ ret = [op |-> "init"]

\* The callbacks of ipsi.modalities run after a write to it.
AfterIpsiWrite(op, name, new_ipsi) ==
  /\ ipsi_modalities' = new_ipsi
  /\ IF sym.modalities_symmetric
     THEN \E r \in modality_sync(new_ipsi, contra_modalities) :
             /\ contra_modalities' = r[1]
             /\ ret' = [op |-> op, name |-> name, raised |-> r[2]]
     ELSE /\ UNCHANGED contra_modalities
          /\ ret' = [op |-> op, name |-> name, raised |-> "no"]
  /\ UNCHANGED <<cls, graph, uniVars, syncVars, likVars>>

\* model.ipsi.modalities[name] = value
SetModality(name, value) ==
  AfterIpsiWrite("setitem", name, DictSet(ipsi_modalities, name, value))

\* del model.ipsi.modalities[name]
DelModality(name) ==
  /\ name \in DOMAIN ipsi_modalities
  /\ AfterIpsiWrite("delitem", name, DictDel(ipsi_modalities, name))

NextMod ==
  \/ \E name \in RegNames, value \in RegValues : SetModality(name, value)
  \/ \E name \in RegNames : DelModality(name)

SpecMod == InitMod /\ [][NextMod]_vars

\* C7: with modalities_symmetric, after every write to the ipsilateral
\* registry the contralateral registry holds the same names with the same
\* values.
C7_RegistriesEqual ==
  sym.modalities_symmetric =>
     contra_modalities = ipsi_modalities

\* ------------------------------------------------------------------ risk
MaxRiskT == 2

\* Modalities of the models risk is called on: none, a CT, a pathology that
\* is never wrong.
RiskModalityInputs ==
  {<<>>, <<[name |-> "CT", spsn |-> <<PD - 2, PD - 1>>]>>,
   <<[name |-> "CT", spsn |-> <<PD, PD>>]>>}

\* spread_probs: not given, or one valid probability per edge.
RiskSpreadInputs(n) == {Absent, Some([k \in 1..n |-> 3])}

\* Diagnoses of one modality over L LNLs: all positive, partial, complete.
DiagnosePatterns(L) ==
  {[c \in 1..L |-> 1], [c \in 1..L |-> IF c = 1 THEN 0 ELSE None],
   [c \in 1..L |-> IF c = 1 THEN 1 ELSE 0]}

\* diagnoses: nothing, or a pattern for the CT.
DiagnosesInputs(L) ==
  {EmptyDict} \cup {DictSet(EmptyDict, "CT", d) : d \in DiagnosePatterns(L)}

\* inv: not given, all masked, or involvement of the first LNL only.
InvInputs(L) ==
  {Absent, Some([c \in 1..L |-> None]),
   Some([c \in 1..L |-> IF c = 1 THEN 1 ELSE None])}

\* <<diag_time, time_dist>>
TimeInputs ==
  {<<Absent, Absent>>, <<Some(MaxRiskT), Absent>>,
   <<Absent, Some([k \in 1..(MaxRiskT + 1) |-> k - 1])>>}

InitR ==
  /\ cls = "Unilateral"
  /\ graph \in {GraphOneLnl, GraphChain}
  /\ InitUnilateral
  /\ NoBilateral
  /\ ret = [op |-> "init"]

\* model.risk(spread_probs, inv, diagnoses, diag_time, time_dist)
Risk(spread_probs, inv, diagnoses, diag_time, time_dist) ==
  \E r \in {risk(graph, t, cachedA, lnlState, modality_tables, cached_obs_list,
                 cachedB, spread_probs, inv, diagnoses, diag_time, time_dist)} :
     /\ t' = r.t
     /\ cachedA' = r.A
     /\ lnlState' = r.st
     /\ cached_obs_list' = r.ol
     /\ cachedB' = r.B
     /\ ret' = [op |-> "risk", inv |-> inv, diagnoses |-> diagnoses,
                diag_time |-> diag_time, time_dist |-> time_dist,
                raised |-> r.raised, result |-> r.result]
               @@ (IF r.result = "none" THEN <<>>
                   ELSE [obs |-> r.obs, cZ |-> r.cZ, num |-> r.num, den |-> r.den])
               @@ (IF r.result = "none" \/ ~IsSet(inv) THEN <<>>
                   ELSE [cX |-> r.cX, risk |-> r.risk])
     /\ UNCHANGED <<cls, graph, modality_tables, dataVars, syncVars, modVars, likVars>>

NextR ==
  \/ \E modality_spsn \in RiskModalityInputs : SetModalities(modality_spsn)
  \/ \E spread_probs \in RiskSpreadInputs(NumEdges(graph)), inv \in InvInputs(graph.nl),
        diagnoses \in DiagnosesInputs(graph.nl), tm \in TimeInputs :
        Risk(spread_probs, inv, diagnoses, tm[1], tm[2])

SpecR == InitR /\ [][NextR]_vars

\* ------------------------------------------- the enumeration of the states
\* The largest number of LNLs of a graph whose states are enumerated.
MaxLnls == 3

\* A tumor that spreads to the first LNL of a chain of n LNLs.
GraphChainOf(n) ==
  Unilateral(n, 1, <<[s |-> n + 1, e |-> 1]>> \o [k \in 1..(n - 1) |-> [s |-> k, e |-> k + 1]])

StateGraphs == {GraphChainOf(n) : n \in 1..MaxLnls}

\* helper.change_base: the same conversion with its arguments checked and
\* the digit 0 for the number 0.
helper_change_base(number, base, reverse, length) ==
  IF number < 0 \/ base > 16 \/ base < 2
  THEN [raised |-> "ValueError"]
  ELSE LET result == IF number = 0 THEN <<0>> ELSE Digits(number, base)
           len == IF ~IsSet(length) \/ Val(length) < Len(result)
                  THEN Len(result) ELSE Val(length)
           pad == Zeros(len - Len(result))
       IN [raised |-> "no",
           val |-> IF reverse THEN result \o pad ELSE pad \o Reverse(result)]

InitS ==
  /\ cls = "Unilateral"
  /\ graph \in StateGraphs
  /\ InitUnilateral
  /\ NoBilateral
  /\ ret = [op |-> "init"]

\* Unilateral.state_list (getter)
ReadStateList ==
  /\ ret' = [op |-> "state_list", val |-> state_list(graph)]
  /\ UNCHANGED <<cls, graph, uniVars, syncVars, modVars, likVars>>

\* change_base(number, base, reverse, length) of unilateral.py; without a
\* length the digits are not padded.
ChangeBase(number, base, reverse, length) ==
  /\ ret' = [op |-> "change_base", number |-> number, base |-> base,
             reverse |-> reverse, length |-> length,
             raised |-> IF base > 16 THEN "ValueError" ELSE "no",
             val |-> IF base > 16 THEN <<>>
                     ELSE change_base(number, base, reverse,
                                      IF IsSet(length) THEN Val(length)
                                      ELSE Len(Digits(number, base)))]
  /\ UNCHANGED <<cls, graph, uniVars, syncVars, modVars, likVars>>

\* change_base(number, base, reverse, length) of helper.py
HelperChangeBase(number, base, reverse, length) ==
  /\ ret' = [op |-> "helper.change_base", number |-> number, base |-> base,
             reverse |-> reverse, length |-> length]
            @@ helper_change_base(number, base, reverse, length)
  /\ UNCHANGED <<cls, graph, uniVars, syncVars, modVars, likVars>>

NumberInputs == (0 - 1)..(Pow(2, MaxLnls) - 1)
LengthInputs == {Absent} \cup {Some(k) : k \in 0..MaxLnls}

NextS ==
  \/ ReadStateList
  \/ \E number \in NumberInputs, base \in {2, 17}, reverse \in BOOLEAN,
        length \in LengthInputs : ChangeBase(number, base, reverse, length)
  \/ \E number \in NumberInputs, base \in {1, 2, 17}, reverse \in BOOLEAN,
        length \in LengthInputs : HelperChangeBase(number, base, reverse, length)

SpecS == InitS /\ [][NextS]_vars

\* ---------------------------------------------- Bilateral: the likelihood
\* max_time of both sides: the diagnose times are 0..MaxLikT.
MaxLikT == 1

\* A bool in the place of the name of a mode: it equals no name of a mode.
PyBool(b) == IF b THEN "True" ELSE "False"

RECURSIVE ProdSeq(_)
ProdSeq(s) == IF s = <<>> THEN 1 ELSE Head(s) * ProdSeq(Tail(s))

\* Unilateral.comp_dist_evolution of one side: the distributions over the
\* states after 0..max_time steps, numerators over DA^max_time.
comp_dist_evolution(g, tt, max_time) ==
  [k \in 1..(max_time + 1) |->
     ScaleVec(Pow(DA(g), max_time - (k - 1)), evolve(g, gen_A(g, tt), k - 1))]

\* ipsi_dist_evo.T @ np.diag(distribution) @ contra_dist_evo, the
\* distribution held as weights w: numerators over sum(w) * DA^(2 max_time).
joint_state_dist(ipsi_dist_evo, w, contra_dist_evo) ==
  [i \in 1..Len(ipsi_dist_evo[1]) |->
     [j \in 1..Len(contra_dist_evo[1]) |->
        SumSeq([k \in 1..Len(w) |->
                  ipsi_dist_evo[k][i] * w[k] * contra_dist_evo[k][j]])]]

\* The probability of the findings diag of one side in a state, a missing
\* finding counting as 1: numerator over PD^(L * number of modalities).
RECURSIVE DiagnoseProb(_, _, _, _)
DiagnoseProb(modalities, names, state, diag) ==
  IF names = {} THEN 1
  ELSE LET name == CHOOSE n \in names : TRUE
           table == modality_table(modalities[name][1], modalities[name][2])
       IN ProdSeq([l \in 1..Len(state) |->
                     IF name \notin DOMAIN diag \/ diag[name][l] = nan THEN PD
                     ELSE obs_prob(state[l], diag[name][l], table)])
            * DiagnoseProb(modalities, names \ {name}, state, diag)

\* Unilateral.diagnose_matrices[stage] of one side: states by patients.
diagnose_matrices(g, modalities, patients, side) ==
  [i \in StateIdx(g) |->
     [p \in 1..Len(patients) |->
        DiagnoseProb(modalities, DOMAIN modalities, state_list(g)[i],
                     patients[p][side])]]

\* np.sum(ipsi_diagnose * (joint_state_dist @ contra_diagnose), axis=0)
joint_diagnose_dist(ipsi_diagnose, joint, contra_diagnose) ==
  [p \in 1..Len(ipsi_diagnose[1]) |->
     SumSeq([i \in 1..Len(ipsi_diagnose) |->
               ipsi_diagnose[i][p]
                 * SumSeq([j \in 1..Len(contra_diagnose) |->
                             joint[i][j] * contra_diagnose[j][p]])])]

\* The T-stages in the order the model holds them.
LikStages == <<"early", "late">>

\* The loop over self.t_stages of _likelihood from stage k on: one factor
\* (numerator and denominator) for each patient of a stage that has a
\* distribution over the diagnose times.
RECURSIVE hmm_loop(_, _, _, _, _, _, _)
hmm_loop(g, sp, im, cm, dtd, data, k) ==
  IF k > Len(LikStages) THEN <<>>
  ELSE IF LikStages[k] \notin DOMAIN dtd THEN hmm_loop(g, sp, im, cm, dtd, data, k + 1)
  ELSE LET w == dtd[LikStages[k]]
           patients == SelectSeq(data, LAMBDA q : q.stage = LikStages[k])
           den == SumSeq(w) * Pow(DA(g), 2 * MaxLikT)
                    * Pow(PD, g.nl * (Cardinality(DOMAIN im) + Cardinality(DOMAIN cm)))
       IN IF patients = <<>> THEN hmm_loop(g, sp, im, cm, dtd, data, k + 1)
          ELSE (CHOOSE r \in
            {[p \in 1..Len(d) |-> [num |-> d[p], den |-> den]] :
               d \in {joint_diagnose_dist(
                        diagnose_matrices(g, im, patients, "ipsi"),
                        joint_state_dist(comp_dist_evolution(g, sp["ipsi"], MaxLikT), w,
                                         comp_dist_evolution(g, sp["contra"], MaxLikT)),
                        diagnose_matrices(g, cm, patients, "contra"))}} : TRUE)
            \o hmm_loop(g, sp, im, cm, dtd, data, k + 1)

\* Bilateral._likelihood(mode, log): the factors of the likelihood; the
\* value is the sum of their logarithms when log is set (0. without a
\* factor) and their product otherwise (1. without a factor).  A mode that
\* is neither "HMM" nor "BN" enters no branch; no call of likelihood gives
\* the mode "BN".
private_likelihood(g, sp, im, cm, dtd, data, mode, log) ==
  CASE mode = "HMM" -> [log |-> log, terms |-> hmm_loop(g, sp, im, cm, dtd, data, 1)]
    [] mode \notin {"HMM", "BN"} -> [log |-> log, terms |-> <<>>]

\* The first position of args that holds no probability, Len(args) + 1 if
\* there is none.
FirstInvalid(args) ==
  CHOOSE k \in 1..(Len(args) + 1) :
     /\ k <= Len(args) => (args[k] < 0 \/ args[k] > PD)
     /\ \A j \in 1..(k - 1) : ~(args[j] < 0 \/ args[j] > PD)

\* Bilateral.assign_params(*args): the ipsilateral edges take the first
\* values and the contralateral edges the next; a value that is no
\* probability raises ValueError after the values before it are stored.
assign_params(g, sp, args) ==
  [raised |-> IF FirstInvalid(args) <= Len(args) THEN "ValueError" ELSE "no",
   sp |-> [side \in Sides |-> [e \in EdgeIdx(g) |->
             LET k == (IF side = "ipsi" THEN 0 ELSE NumEdges(g)) + e
             IN IF k < FirstInvalid(args) /\ k <= Len(args) THEN args[k]
                ELSE sp[side][e]]]]

\* Bilateral.likelihood(data, given_params, load_data_kwargs=None, log, mode):
\* the spread probabilities and the data it leaves, and what it returns.
\* Minus infinity is the logarithm of the factor 0.
likelihood(g, sp, im, cm, dtd, pdata, data, given_params, log, mode) ==
  LET loaded == IF IsSet(data) THEN Val(data) ELSE pdata
  IN IF ~IsSet(given_params)
     THEN [sp |-> sp, data |-> loaded,
           val |-> private_likelihood(g, sp, im, cm, dtd, loaded, PyBool(log), TRUE)]
     ELSE CHOOSE r \in
       {IF a.raised = "ValueError"
        THEN [sp |-> a.sp, data |-> loaded,
              val |-> [log |-> log, terms |-> <<[num |-> 0, den |-> 1]>>]]
        ELSE [sp |-> a.sp, data |-> loaded,
              val |-> private_likelihood(g, a.sp, im, cm, dtd, loaded, PyBool(log), TRUE)] :
          a \in {assign_params(g, sp, Val(given_params))}} : TRUE

\* A patient of a T-stage with the findings of the CT on both sides.
LikPatient(stage, ipsi, contra) ==
  [stage |-> stage, ipsi |-> DictSet(EmptyDict, "CT", ipsi),
   contra |-> DictSet(EmptyDict, "CT", contra)]

LikDataInputs(L) ==
  {Absent,
   Some(<<LikPatient("early", Ones(L), Zeros(L))>>),
   Some(<<LikPatient("early", Ones(L), Zeros(L)),
          LikPatient("late", [l \in 1..L |-> nan], Ones(L))>>)}

\* given_params: none, a probability for the edge of each side, a first
\* value that is no probability.
LikParamInputs == {Absent, Some(<<3, 7>>), Some(<<PD + 1, 7>>)}

\* Weights of the diagnose times 0..MaxLikT.
LikTimeInputs == {[k \in 1..(MaxLikT + 1) |-> 1],
                  [k \in 1..(MaxLikT + 1) |-> IF k = 1 THEN 0 ELSE 1]}

LikSpsnInputs == {<<PD - 2, PD - 1>>, <<PD, PD>>}

\* A Bilateral of the default flags on the graph of one LNL, no data loaded.
InitLik ==
  /\ cls = "Bilateral"
  /\ graph = GraphOneLnl
  /\ InitUnilateral
  /\ sym = [edge_eq |-> "identity", tumor_spread_symmetric |-> FALSE,
            lnl_spread_symmetric |-> TRUE, modalities_symmetric |-> TRUE]
  /\ edge_spread_prob = [side \in Sides |-> [e \in EdgeIdx(graph) |-> 0]]
  /\ trigger_callbacks = Bilateral_init(graph, sym.edge_eq,
                                        sym.tumor_spread_symmetric,
                                        sym.lnl_spread_symmetric)
  /\ pending = <<>>
  /\ runs = Absent
  /\ ipsi_modalities = EmptyDict
  /\ contra_modalities = EmptyDict
  /\ diag_time_dists = EmptyDict
  /\ patient_data = <<>>
  /\ bilateral_system = Absent
  /\ ret = [op |-> "init"]

\* model.diag_time_dists[stage] = distribution
SetDiagTimeDist(stage, w) ==
  /\ diag_time_dists' = DictSet(diag_time_dists, stage, w)
  /\ ret' = [op |-> "diag_time_dists", stage |-> stage]
  /\ UNCHANGED <<cls, graph, uniVars, syncVars, modVars, patient_data, bilateral_system>>

\* model.likelihood(data, given_params, log=log, mode=mode)
Likelihood(data, given_params, log, mode) ==
  \E r \in {likelihood(graph, edge_spread_prob, ipsi_modalities, contra_modalities,
                       diag_time_dists, patient_data, data, given_params, log, mode)} :
     /\ edge_spread_prob' = r.sp
     /\ patient_data' = r.data
     /\ ret' = [op |-> "likelihood", data |-> data, given_params |-> given_params,
                log |-> log, mode |-> mode, val |-> r.val]
     /\ UNCHANGED <<cls, graph, uniVars, sym, trigger_callbacks, pending, runs, modVars,
                    diag_time_dists, bilateral_system>>

NextLik ==
  \/ \E value \in LikSpsnInputs : SetModality("CT", value)
  \/ \E w \in LikTimeInputs : SetDiagTimeDist("early", w)
  \/ SetDiagTimeDist("late", [k \in 1..(MaxLikT + 1) |-> 1])
  \/ \E data \in LikDataInputs(graph.nl), given_params \in LikParamInputs,
        log \in BOOLEAN, mode \in {"HMM", "BN"} :
        Likelihood(data, given_params, log, mode)

SpecLik == InitLik /\ [][NextLik]_vars

\* ------------------------------------------- the checks of spec. and sens.
\* The longest list offered as specificity and sensitivity.
MaxSpsnLen == 3

\* helper.check_spsn: what it raises.
check_spsn(spsn) ==
  LET has_len_2 == Len(spsn) = 2
      is_above_lb == \A k \in 1..Len(spsn) : 2 * spsn[k] >= PD
      is_below_ub == \A k \in 1..Len(spsn) : spsn[k] <= PD
  IN IF ~has_len_2 \/ ~is_above_lb \/ ~is_below_ub THEN "ValueError" ELSE "no"

\* helper.check_modality: what it raises; the name is held with its type.
check_modality(modality, spsn) ==
  LET has_len_2 == Len(spsn) = 2
      is_above_lb == \A k \in 1..Len(spsn) : 2 * spsn[k] >= PD
      is_below_ub == \A k \in 1..Len(spsn) : spsn[k] <= PD
  IN IF modality.type # "str" THEN "TypeError"
     ELSE IF ~has_len_2 \/ ~is_above_lb \/ ~is_below_ub THEN "ValueError"
     ELSE "no"

\* helper.clinical: <<confusion matrix, raised>>.
clinical(spsn) ==
  IF check_spsn(spsn) # "no" THEN <<Absent, check_spsn(spsn)>>
  ELSE <<Some(<<<<spsn[1], PD - spsn[1]>>, <<spsn[1], PD - spsn[1]>>,
                <<PD - spsn[2], spsn[2]>>>>), "no">>

\* helper.pathological: <<confusion matrix, raised>>.
pathological(spsn) ==
  IF check_spsn(spsn) # "no" THEN <<Absent, check_spsn(spsn)>>
  ELSE <<Some(<<<<spsn[1], PD - spsn[1]>>, <<PD - spsn[2], spsn[2]>>,
                <<PD - spsn[2], spsn[2]>>>>), "no">>

\* Numbers below 0.5, from 0.5 on, 1.0 and above 1.0.
SpsnValues == {(PD - 1) \div 2, (PD + 1) \div 2, PD, PD + 1}

\* Every list of at most two of these numbers, and longer lists of up to
\* MaxSpsnLen numbers that are all in [0.5, 1.0].
SpsnLists ==
  UNION {[1..n -> SpsnValues] : n \in 0..2}
    \cup {[k \in 1..n |-> PD] : n \in 3..MaxSpsnLen}

\* Values given to the modalities setter: a list for the CT, or a pair in
\* [0.5, 1.0] for the CT and a list for the MRI.
CheckedModalityInputs ==
  {<<[name |-> "CT", spsn |-> l]>> : l \in SpsnLists}
    \cup {<<[name |-> "CT", spsn |-> <<PD, PD>>], [name |-> "MRI", spsn |-> l]>> :
            l \in SpsnLists}

NameInputs == {[type |-> "str", value |-> "CT"], [type |-> "int", value |-> "7"]}

\* check_spsn(spsn)
CheckSpsn(spsn) ==
  /\ ret' = [op |-> "check_spsn", spsn |-> spsn, raised |-> check_spsn(spsn)]
  /\ UNCHANGED <<cls, graph, uniVars, syncVars, modVars, likVars>>

\* check_modality(modality, spsn)
CheckModality(modality, spsn) ==
  /\ ret' = [op |-> "check_modality", modality |-> modality, spsn |-> spsn,
             raised |-> check_modality(modality, spsn)]
  /\ UNCHANGED <<cls, graph, uniVars, syncVars, modVars, likVars>>

\* clinical(spsn)
Clinical(spsn) ==
  /\ ret' = [op |-> "clinical", spsn |-> spsn, val |-> clinical(spsn)[1],
             raised |-> clinical(spsn)[2]]
  /\ UNCHANGED <<cls, graph, uniVars, syncVars, modVars, likVars>>

\* pathological(spsn)
Pathological(spsn) ==
  /\ ret' = [op |-> "pathological", spsn |-> spsn, val |-> pathological(spsn)[1],
             raised |-> pathological(spsn)[2]]
  /\ UNCHANGED <<cls, graph, uniVars, syncVars, modVars, likVars>>

InitV ==
  /\ cls = "Unilateral"
  /\ graph = GraphOneLnl
  /\ InitUnilateral
  /\ NoBilateral
  /\ ret = [op |-> "init"]

NextV ==
  \/ \E spsn \in SpsnLists : CheckSpsn(spsn)
  \/ \E modality \in NameInputs, spsn \in SpsnLists : CheckModality(modality, spsn)
  \/ \E spsn \in SpsnLists : Clinical(spsn)
  \/ \E spsn \in SpsnLists : Pathological(spsn)
  \/ \E modality_spsn \in CheckedModalityInputs : SetModalities(modality_spsn)

SpecV == InitV /\ [][NextV]_vars

\* ------------------------------------------ construction from a dictionary
\* A graph dictionary is held as the sequence of its items in insertion
\* order: the type and the name of the key, and the list of names.
\* Unilateral.find_node: the position of the first node of that name, 0 for
\* None.
find_node(nodes, name) ==
  IF \E k \in 1..Len(nodes) : nodes[k].name = name
  THEN CHOOSE k \in 1..Len(nodes) :
         nodes[k].name = name /\ \A j \in 1..(k - 1) : nodes[j].name # name
  ELSE 0

\* The loop "for key, values in graph.items(): for value in values" of
\* __init__ from item k on: the start and the end of every edge.
RECURSIVE init_edges(_, _, _)
init_edges(graph_dict, nodes, k) ==
  IF k > Len(graph_dict) THEN <<>>
  ELSE [c \in 1..Len(graph_dict[k].connections) |->
          [start |-> find_node(nodes, graph_dict[k].name),
           end |-> find_node(nodes, graph_dict[k].connections[c])]]
         \o init_edges(graph_dict, nodes, k + 1)

\* Unilateral.__init__(graph): the lists it builds.  Edge is not in src/:
\* whether Edge(start, None) raises is given as none_raises.
Unilateral_init(graph_dict, none_raises) ==
  LET nodes == [k \in 1..Len(graph_dict) |->
                  [name |-> graph_dict[k].name, typ |-> graph_dict[k].typ]]
      edges == init_edges(graph_dict, nodes, 1)
  IN IF none_raises /\ \E k \in 1..Len(edges) : edges[k].end = 0
     THEN [raised |-> "TypeError"]
     ELSE [raised |-> "no", nodes |-> nodes,
           tumors |-> SelectSeq(Idxs(Len(nodes)), LAMBDA k : nodes[k].typ = "tumor"),
           lnls |-> SelectSeq(Idxs(Len(nodes)), LAMBDA k : nodes[k].typ # "tumor"),
           edges |-> edges,
           base_edges |-> SelectSeq(Idxs(Len(edges)),
                            LAMBDA k : nodes[edges[k].start].typ = "tumor"),
           trans_edges |-> SelectSeq(Idxs(Len(edges)),
                             LAMBDA k : nodes[edges[k].start].typ # "tumor")]

\* set(connections) of a list of names.
NameSet(connections) == {connections[c] : c \in 1..Len(connections)}

\* helper.check_unique_names(graph) for connection lists that are lists: what
\* it raises, item by item and then for the names.
RECURSIVE check_unique_names(_, _)
check_unique_names(graph_dict, k) ==
  IF k > Len(graph_dict)
  THEN IF Cardinality({graph_dict[j].name : j \in 1..Len(graph_dict)}) # Len(graph_dict)
       THEN "ValueError" ELSE "no"
  ELSE IF Len(graph_dict[k].connections) # Cardinality(NameSet(graph_dict[k].connections))
       THEN "ValueError"
  ELSE IF graph_dict[k].name \in NameSet(graph_dict[k].connections)
       THEN "ValueError"
  ELSE check_unique_names(graph_dict, k + 1)

\* The longest list of names a node is given.
MaxConnections == 2

NodeNames == {"a", "b"}
ConnectionLists == UNION {[1..n -> NodeNames \cup {"c"}] : n \in 0..MaxConnections}

\* Dictionaries of two items with different keys: a tumor or an LNL "a" with
\* any list of names, and an LNL with no name or one name in its list.
GraphDictInputs ==
  {d \in {<<[typ |-> typ, name |-> "a", connections |-> first],
            [typ |-> "lnl", name |-> name, connections |-> second]>> :
            typ \in {"tumor", "lnl"}, first \in ConnectionLists, name \in NodeNames,
            second \in {l \in ConnectionLists : Len(l) <= 1}} :
     <<d[1].typ, d[1].name>> # <<d[2].typ, d[2].name>>}

\* Unilateral(graph): the object built, or the error.
NewUnilateral(graph_dict, none_raises) ==
  /\ ret' = [op |-> "Unilateral", graph |-> graph_dict]
              @@ Unilateral_init(graph_dict, none_raises)
  /\ UNCHANGED <<cls, graph, uniVars, syncVars, modVars, likVars>>

\* check_unique_names(graph)
CheckUniqueNames(graph_dict) ==
  /\ ret' = [op |-> "check_unique_names", graph |-> graph_dict,
             raised |-> check_unique_names(graph_dict, 1)]
  /\ UNCHANGED <<cls, graph, uniVars, syncVars, modVars, likVars>>

NextG ==
  \/ \E graph_dict \in GraphDictInputs, none_raises \in BOOLEAN :
        NewUnilateral(graph_dict, none_raises)
  \/ \E graph_dict \in GraphDictInputs : CheckUniqueNames(graph_dict)

SpecG == InitV /\ [][NextG]_vars

\* ------------------------------------ marginalising over the diagnose time
\* The last diagnose time of a distribution over diagnose times.
MaxMargT == 2

\* The loop of _evolve that fills state_probs from row i on, state being the
\* distribution of row i; the row of time s has numerators over DA^s.
RECURSIVE evolve_rows(_, _, _, _)
evolve_rows(state, A, i, len_time_range) ==
  IF i > len_time_range THEN <<state>>
  ELSE <<state>> \o evolve_rows(VecMat(state, A), A, i + 1, len_time_range)

\* Unilateral._evolve(t_first, t_last) with a t_last: <<state_probs, raised>>.
evolve_range(g, A, t_first, t_last) ==
  IF t_last - t_first < 0 THEN <<Absent, "ValueError">>
  ELSE <<Some(evolve_rows(evolve(g, A, t_first), A, 1, t_last - t_first)), "no">>

\* time_dists[stage] @ state_probs for the rows of the times 0..Len(rows)-1,
\* from row i on; time_dist is held as weights w, and the numerators of the
\* result are over DA^(Len(rows) - 1).
RECURSIVE time_dist_matmul(_, _, _, _)
time_dist_matmul(da, w, rows, i) ==
  IF i > Len(rows) THEN Zeros(Len(rows[1]))
  ELSE AddVec(ScaleVec(w[i] * Pow(da, Len(rows) - i), rows[i]),
              time_dist_matmul(da, w, rows, i + 1))

\* The same accumulation with start multiplied by A before it is added.
time_prior_loop_late(da, w, start, A, i, tmp) ==
  AddVec(tmp, marginalize(da, w, VecMat(start, A), A, i))

\* The loop "for pt in time_prior_dict[stage]: tmp += pt * start;
\* start = start @ self.A" of System.likelihood from entry i on; the
\* numerators of tmp are over DA^(Len(w) - 1).
RECURSIVE time_prior_loop(_, _, _, _, _, _)
time_prior_loop(da, w, start, A, i, tmp) ==
  IF i > Len(w) THEN tmp
  ELSE time_prior_loop(da, w, VecMat(start, A), A, i + 1,
                       AddVec(tmp, ScaleVec(w[i] * Pow(da, Len(w) - i), start)))

\* Weights of the diagnose times 0..n-1 for n up to MaxMargT + 1.
TimeWeights == UNION {[1..n -> 0..2] : n \in 1..(MaxMargT + 1)}

\* One valid probability for every edge.
ValidProbs(n) == {[k \in 1..n |-> 3], [k \in 1..n |-> IF k = 1 THEN 7 ELSE PD]}

\* The state distribution of a T-stage in Unilateral.log_likelihood with
\* time_dists: time_dists[stage] @ self._evolve(t_last=max_t), max_t being
\* len(time_dist) - 1.
LlhStateProbs(w) ==
  \E r \in {read_A(graph, t, cachedA, lnlState)} :
     /\ cls = "Unilateral"
     /\ cachedA' = r[1]
     /\ lnlState' = r[2]
     /\ ret' = [op |-> "log_likelihood.state_probs", w |-> w,
                val |-> time_dist_matmul(DA(graph), w,
                          Val(evolve_range(graph, Val(r[1]), 0, Len(w) - 1)[1]), 1)]
     /\ UNCHANGED <<cls, graph, t, nonParamVars>>

\* The state distribution in Unilateral.risk with time_dist:
\* time_dist @ self._evolve(t_last=len(time_dist) - 1).
RiskStateProbs(w) ==
  \E r \in {read_A(graph, t, cachedA, lnlState)} :
     /\ cls = "Unilateral"
     /\ cachedA' = r[1]
     /\ lnlState' = r[2]
     /\ ret' = [op |-> "risk.pX", w |-> w,
                val |-> marginalize(DA(graph), w, start_state(graph), Val(r[1]), 1)]
     /\ UNCHANGED <<cls, graph, t, nonParamVars>>

\* System.likelihood(theta, [stage], {stage: w}) up to the vector tmp of the
\* T-stage: theta is set, A is computed again and the loop runs.
SysLikelihoodTmp(theta, w) ==
  /\ cls = "System"
  /\ Len(theta) = NumEdges(graph)
  /\ t' = [e \in EdgeIdx(graph) |-> theta[e]]
  /\ cachedA' = Some(Sys_gen_A(graph, t'))
  /\ lnlState' = LastState(graph)
  /\ ret' = [op |-> "likelihood.tmp", w |-> w,
             val |-> time_prior_loop(DA(graph), w, start_state(graph), Val(cachedA'),
                                     1, Zeros(NumStates(graph)))]
  /\ UNCHANGED <<cls, graph, nonParamVars>>

NextT ==
  \/ \E new \in ValidProbs(NumEdges(graph)) : SetSpreadProbs(new)
  \/ \E w \in TimeWeights : LlhStateProbs(w)
  \/ \E w \in TimeWeights : RiskStateProbs(w)
  \/ \E theta \in ValidProbs(NumEdges(graph)), w \in TimeWeights : SysLikelihoodTmp(theta, w)
  \/ ReadA
  \/ \E t_first \in 0..MaxMargT : Evolve(t_first)

SpecT == Init /\ [][NextT]_vars

\* ------------------------------------------- transition tensor of an edge
\* Entries of a transition tensor are numerators over PD * PD, the
\* denominator of spread_prob * micro_mod.
TensorOne == PD * PD

\* np.stack([np.eye(num_child)] * num_parent)
StackedEye(num_parent, num_child) ==
  [a \in 1..num_parent |->
     [b \in 1..num_child |-> [k \in 1..num_child |-> IF k = b THEN TensorOne ELSE 0]]]

\* tensor[a, b, :] = row with a and b counted from 0: an index outside the
\* tensor raises IndexError, a row of another length than the last axis
\* raises ValueError.
SetTensorRow(tensor, a, b, row) ==
  IF a + 1 > Len(tensor) \/ b + 1 > Len(tensor[1])
  THEN [raised |-> "IndexError", tensor |-> tensor]
  ELSE IF Len(row) # Len(tensor[1])
  THEN [raised |-> "ValueError", tensor |-> tensor]
  ELSE [raised |-> "no",
        tensor |-> [tensor EXCEPT ![a + 1] = [@ EXCEPT ![b + 1] = row]]]

\* [0.] * (num_child - 2)
TensorPad(num_child) == Zeros(IF num_child > 2 THEN num_child - 2 ELSE 0)

\* The tensor with every parent spreading with spread_prob.
comp_transition_tensor_no_micro(num_parent, num_child, is_tumor_spread, is_growth, spread_prob, micro_mod) ==
  LET tensor == StackedEye(num_parent, num_child)
      row == <<(PD - spread_prob) * PD, spread_prob * PD>> \o TensorPad(num_child)
  IN IF is_tumor_spread THEN SetTensorRow(tensor, 0, 0, row)
     ELSE IF is_growth
     THEN SetTensorRow(tensor, 1, 1, <<0, (PD - spread_prob) * PD, spread_prob * PD>>)
     ELSE IF num_parent = 3
     THEN SetTensorRow(SetTensorRow(tensor, 1, 0, row).tensor, 2, 0, row)
     ELSE SetTensorRow(tensor, 1, 0, row)

\* helper.comp_transition_tensor; spread_prob and micro_mod are numerators
\* over PD.
comp_transition_tensor(num_parent, num_child, is_tumor_spread, is_growth, spread_prob, micro_mod) ==
  LET tensor == StackedEye(num_parent, num_child)
      pad == TensorPad(num_child)
      micro_spread == spread_prob * micro_mod
      macro_spread == spread_prob
      micro == SetTensorRow(tensor, 1, 0,
                 <<TensorOne - micro_spread, micro_spread>> \o pad)
  IN IF is_tumor_spread
     THEN SetTensorRow(tensor, 0, 0,
            <<(PD - spread_prob) * PD, spread_prob * PD>> \o pad)
     ELSE IF is_growth
     THEN SetTensorRow(tensor, 1, 1,
            <<0, (PD - spread_prob) * PD, spread_prob * PD>>)
     ELSE IF num_parent = 3
     THEN IF micro.raised # "no" THEN micro
          ELSE SetTensorRow(micro.tensor, 2, 0,
                 <<(PD - macro_spread) * PD, macro_spread * PD>> \o pad)
     ELSE SetTensorRow(tensor, 1, 0,
            <<(PD - spread_prob) * PD, spread_prob * PD>> \o pad)

\* Numbers of states of a node: 1 for a tumor, 2 or 3 for an LNL.
ParentStates == {1, 2, 3}
ChildStates == {2, 3}
EdgeProbs == {0, 3, PD}

\* comp_transition_tensor(num_parent, num_child, is_tumor_spread, is_growth,
\* spread_prob, micro_mod)
CompTransitionTensor(num_parent, num_child, is_tumor_spread, is_growth, spread_prob, micro_mod) ==
  /\ ret' = [op |-> "comp_transition_tensor",
             num_parent |-> num_parent, num_child |-> num_child,
             is_tumor_spread |-> is_tumor_spread, is_growth |-> is_growth,
             spread_prob |-> spread_prob, micro_mod |-> micro_mod]
            @@ comp_transition_tensor(num_parent, num_child, is_tumor_spread,
                                      is_growth, spread_prob, micro_mod)
  /\ UNCHANGED <<cls, graph, uniVars, syncVars, modVars, likVars>>

NextE ==
  \E num_parent \in ParentStates, num_child \in ChildStates,
     is_tumor_spread \in BOOLEAN, is_growth \in BOOLEAN,
     spread_prob \in EdgeProbs, micro_mod \in EdgeProbs :
       CompTransitionTensor(num_parent, num_child, is_tumor_spread, is_growth,
                            spread_prob, micro_mod)

SpecE == InitV /\ [][NextE]_vars

\* ------------------------------------------------- system.BilateralSystem
\* BilateralSystem.__init__(graph) makes every LNL and every edge of the
\* graph once for each side, so that ipsi_base[k] and contra_base[k] mirror
\* base edge k of the graph, ipsi_trans[k] and contra_trans[k] trans edge k,
\* and self.edges holds twice the edges of the graph.  No edge crosses the
\* sides, so unilateral_system = System(graph); its edges, A and node states
\* are t, cachedA and lnlState.  bilateral_system.t_i[e] and .t_c[e] are
\* edge.t of the two mirrors of edge e.
GraphNoEdge == Unilateral(1, 1, <<>>)

InitBS ==
  /\ cls = "BilateralSystem"
  /\ graph \in Graphs \cup {GraphNoEdge}
  /\ InitUnilateral
  /\ sym = Absent
  /\ edge_spread_prob = Absent
  /\ trigger_callbacks = Absent
  /\ pending = <<>>
  /\ runs = Absent
  /\ ipsi_modalities = Absent
  /\ contra_modalities = Absent
  /\ diag_time_dists = Absent
  /\ patient_data = Absent
  /\ bilateral_system = [t_i |-> [e \in EdgeIdx(graph) |-> 0],
                         t_c |-> [e \in EdgeIdx(graph) |-> 0],
                         A_i |-> Absent, A_c |-> Absent]
  /\ ret = [op |-> "init"]

\* System.set_theta(theta, mode) on the System with edges tt, matrix a and
\* node states st.
Sys_set_theta(g, tt, a, st, theta, mode) ==
  IF Len(theta) # NumEdges(g)
  THEN [t |-> tt, A |-> a, st |-> st, raised |-> "ValueError"]
  ELSE IF mode = "HMM"
  THEN [t |-> [e \in EdgeIdx(g) |-> theta[e]],
        A |-> Some(Sys_gen_A(g, [e \in EdgeIdx(g) |-> theta[e]])),
        st |-> LastState(g), raised |-> "no"]
  ELSE [t |-> [e \in EdgeIdx(g) |-> theta[e]], A |-> a, st |-> st, raised |-> "no"]

\* The edges one block of BilateralSystem.set_theta writes with one entry of
\* theta each, in the order of the cursor: pairs of mirrors if the block is
\* symmetric, else the ipsilateral edges and then the contralateral ones.
ThetaBlock(block, symmetric) ==
  IF symmetric
  THEN [k \in 1..Len(block) |-> <<<<"i", block[k]>>, <<"c", block[k]>>>>]
  ELSE [k \in 1..Len(block) |-> <<<<"i", block[k]>>>>]
       \o [k \in 1..Len(block) |-> <<<<"c", block[k]>>>>]

\* edge.t = value for the edges of one cursor position.
RECURSIVE WriteEdges(_, _, _)
WriteEdges(bs, edges, value) ==
  IF edges = <<>> THEN bs
  ELSE WriteEdges(IF Head(edges)[1] = "i"
                  THEN [bs EXCEPT !.t_i[Head(edges)[2]] = value]
                  ELSE [bs EXCEPT !.t_c[Head(edges)[2]] = value],
                  Tail(edges), value)

\* The loops of BilateralSystem.set_theta from cursor position j on;
\* theta[cursor] raises IndexError past the end of theta.
RECURSIVE ThetaLoop(_, _, _, _)
ThetaLoop(bs, targets, theta, j) ==
  IF j > Len(targets) THEN <<bs, "no">>
  ELSE IF j > Len(theta) THEN <<bs, "IndexError">>
  ELSE ThetaLoop(WriteEdges(bs, targets[j], theta[j]), targets, theta, j + 1)

\* BilateralSystem.get_theta(output="list", order="by_side")
get_theta_by_side(g, bs) ==
  [k \in 1..Len(base_edges(g)) |-> bs.t_i[base_edges(g)[k]]]
  \o [k \in 1..Len(trans_edges(g)) |-> bs.t_i[trans_edges(g)[k]]]
  \o [k \in 1..Len(base_edges(g)) |-> bs.t_c[base_edges(g)[k]]]
  \o [k \in 1..Len(trans_edges(g)) |-> bs.t_c[trans_edges(g)[k]]]

\* BilateralSystem._gen_A with a unilateral_system: len(self.edges) counts
\* the edges of both sides.
Bilateral_gen_A(g, tt, a, st, bs) ==
  LET bilateral_theta == get_theta_by_side(g, bs)
      len_edges == 2 * NumEdges(g)
      ipsi_theta == SubSeq(bilateral_theta, 1, Min(len_edges, Len(bilateral_theta)))
      contra_theta == SubSeq(bilateral_theta, len_edges + 1, Len(bilateral_theta))
      first == Sys_set_theta(g, tt, a, st, ipsi_theta, "HMM")
      second == Sys_set_theta(g, first.t, first.A, first.st, contra_theta, "HMM")
  IN IF first.raised # "no" THEN first @@ [bs |-> bs]
     ELSE IF second.raised # "no"
     THEN second @@ [bs |-> [bs EXCEPT !.A_i = first.A]]
     ELSE second @@ [bs |-> [bs EXCEPT !.A_i = first.A, !.A_c = second.A]]

\* BilateralSystem.set_theta(theta, base_symmetric, trans_symmetric, mode)
Bilateral_set_theta(g, tt, a, st, bs, theta, base_symmetric, trans_symmetric, mode) ==
  LET written == ThetaLoop(bs, ThetaBlock(base_edges(g), base_symmetric)
                               \o ThetaBlock(trans_edges(g), trans_symmetric),
                           theta, 1)
  IN IF written[2] # "no"
     THEN [t |-> tt, A |-> a, st |-> st, bs |-> written[1], raised |-> written[2]]
     ELSE IF mode = "HMM" THEN Bilateral_gen_A(g, tt, a, st, written[1])
     ELSE [t |-> tt, A |-> a, st |-> st, bs |-> written[1], raised |-> "no"]

\* Parameter lists for both sides: constant ones and ones that tell the
\* positions apart.
BilateralThetas(n) ==
  UNION {{[k \in 1..len |-> 3], [k \in 1..len |-> k + 2]} : len \in 0..(2 * n)}

\* system.set_theta(theta, base_symmetric, trans_symmetric, mode)
BilateralSetTheta(theta, base_symmetric, trans_symmetric, mode) ==
  \E r \in {Bilateral_set_theta(graph, t, cachedA, lnlState, bilateral_system, theta,
                                base_symmetric, trans_symmetric, mode)} :
     /\ cls = "BilateralSystem"
     /\ t' = r.t
     /\ cachedA' = r.A
     /\ lnlState' = r.st
     /\ bilateral_system' = r.bs
     /\ ret' = [op |-> "BilateralSystem.set_theta", theta |-> theta,
                base_symmetric |-> base_symmetric,
                trans_symmetric |-> trans_symmetric, mode |-> mode,
                raised |-> r.raised]
     /\ UNCHANGED <<cls, graph, obsVars, dataVars, syncVars, modVars,
                    diag_time_dists, patient_data>>

NextBS ==
  \E theta \in BilateralThetas(NumEdges(graph)), base_symmetric \in BOOLEAN,
     trans_symmetric \in BOOLEAN, mode \in {"HMM", "BN"} :
       BilateralSetTheta(theta, base_symmetric, trans_symmetric, mode)

SpecBS == InitBS /\ [][NextBS]_vars

\* A call of risk with a diagnose time or a distribution over diagnose times,
\* on a model whose modalities are defined.
RiskCalled ==
  /\ ret.op = "risk"
  /\ IsSet(modality_tables)
  /\ IsSet(ret.diag_time) \/ IsSet(ret.time_dist)

\* C11: a call of risk without an involvement pattern, for valid spread
\* probabilities, any diagnosis and any diagnose time or distribution over
\* diagnose times, raises nothing and returns a vector with one entry per
\* hidden state whose entries sum to 1.
C11_RiskSumsToOne ==
  (RiskCalled /\ ~IsSet(ret.inv)) =>
     /\ ret.raised = "no"
     /\ ret.result = "vector"
     /\ Len(ret.num) = NumStates(graph)
     /\ ret.den > 0
     /\ SumSeq(ret.num) = ret.den

\* C8: a call of log_likelihood with one spread probability per edge and, if
\* T-stages are given, one diagnose time per given T-stage returns minus
\* infinity and raises nothing whenever one of the spread probabilities is
\* outside [0,1] or one of the diagnose times exceeds max_t.
C8_MinusInfinity ==
  (/\ ret.op = "log_likelihood"
   /\ ret.len = ret.want
   /\ (IsSet(ret.t_stages) /\ IsSet(ret.diag_times)) =>
         DOMAIN Val(ret.diag_times)
           = {Val(ret.t_stages)[k] : k \in 1..Len(Val(ret.t_stages))}
   /\ \/ \E k \in 1..ret.len : ret.spread_probs[k] < 0 \/ ret.spread_probs[k] > PD
      \/ /\ IsSet(ret.diag_times)
         /\ \E s \in DOMAIN Val(ret.diag_times) :
               Val(ret.diag_times)[s] > ret.max_t)
  => (ret.raised = "no" /\ ret.result = "neginf")

\* C4: once modalities are defined, a read of B returns the observation
\* matrix of the modalities registered at that moment, with 2^(M*L) columns
\* for the M registered modalities, and a read of the observation list
\* returns the 2^(M*L) observations of these modalities.
C4_ReadBIsCurrent ==
  IsSet(modality_tables) =>
     LET M == Len(Val(modality_tables))
         ol == gen_obs_list(M, graph.nl)
     IN /\ ret.op = "B" =>
             /\ ret.raised = "no"
             /\ Len(ret.val[1]) = Pow(2, M * graph.nl)
             /\ ret.val = gen_B(graph, Val(modality_tables), ol)[1]
        /\ ret.op = "obs_list" =>
             /\ ret.raised = "no"
             /\ ret.val = ol

\* ------------------------------------------------------------------ claims
ParamsValid == \A e \in EdgeIdx(graph) : t[e] \in 0..PD

\* Digit l (1 = first LNL) of hidden state number i of a model with L LNLs.
StateBit(i, l, L) == (i \div Pow(2, L - l)) % 2

ReturnedA == ret.op = "A" /\ ret.raised = "no"

\* C1: with every spread probability in [0,1], every row of the transition
\* matrix held by the model (Unilateral._A, System.A) sums to 1.
C1_RowsOfASumToOne ==
  (IsSet(cachedA) /\ ParamsValid) =>
     \A i \in StateIdx(graph) : SumSeq(Val(cachedA)[i]) = DA(graph)

C1_Witness ==
  /\ cls = "Unilateral" /\ graph = GraphTwoTumors /\ ReturnedA
  /\ t = <<3, 3>> /\ ret.val = gen_A(graph, t)
  /\ ret.val[1] = <<49, 51>>

\* C2: self-healing is impossible: in every matrix A returned by a read, the
\* entry from state i to state j is 0 when some LNL is involved in i and
\* healthy in j.
C2_NoSelfHealing ==
  ReturnedA =>
     \A i, j \in 0..(NumStates(graph) - 1) :
        (\E l \in 1..graph.nl :
            StateBit(i, l, graph.nl) = 1 /\ StateBit(j, l, graph.nl) = 0)
        => ret.val[i + 1][j + 1] = 0

C2_Witness ==
  /\ cls = "Unilateral" /\ graph = GraphChain /\ ReturnedA
  /\ t = <<3, 3>> /\ ret.val[2][4] > 0 /\ ret.val[4][2] = 0

\* C3: the matrix returned by a read of Unilateral.A is the transition matrix
\* of the spread probabilities the edges hold at that moment.
C3_ReadAIsCurrent ==
  (cls = "Unilateral" /\ ReturnedA) => ret.val = gen_A(graph, t)

\* C9: a write of spread parameters whose number differs from the number of
\* edges of the addressed class raises an error.
C9_WrongLengthRejected ==
  (/\ ret.op \in {"base_probs", "trans_probs", "spread_probs", "set_theta"}
   /\ ret.len # ret.want)
  => ret.raised # "no"

\* C10: one tumor, one LNL, spread probability p: _evolve(t) returns
\* <<(1-p)^t, 1 - (1-p)^t>>, e.g. <<0.49, 0.51>> for p = 0.3 and t = 2.
C10_OneLnlEvolve ==
  (cls = "Unilateral" /\ graph = GraphOneLnl /\ ret.op = "_evolve") =>
     /\ ret.val = <<Pow(PD - t[1], ret.t_first),
                    Pow(PD, ret.t_first) - Pow(PD - t[1], ret.t_first)>>
     /\ (10 * t[1] = 3 * PD /\ ret.t_first = 2) =>
           /\ 100 * ret.val[1] = 49 * Pow(PD, 2)
           /\ 100 * ret.val[2] = 51 * Pow(PD, 2)

C10_Witness ==
  /\ cls = "Unilateral" /\ graph = GraphOneLnl /\ ret.op = "_evolve"
  /\ 10 * t[1] = 3 * PD /\ ret.t_first = 2
  /\ ret.val[2] > ret.val[1]

\* Hidden state number i (from 0) agrees with the pattern on each entry that
\* is not masked.
Agrees(i, pattern, L) ==
  \A l \in 1..L : pattern[l] = None \/ pattern[l] = StateBit(i, l, L)

\* C12: a call of risk with an involvement pattern raises nothing and returns
\* a number: the sum of the posterior probabilities num[i] / den of the hidden
\* states i that agree with the pattern on its entries that are not masked;
\* it lies in [0,1], and it is 1 when every entry of the pattern is masked.
C12_RiskOfPattern ==
  (RiskCalled /\ IsSet(ret.inv)) =>
     /\ ret.raised = "no"
     /\ ret.result = "number"
     /\ ret.den > 0
     /\ ret.risk = SumSeq([i \in 1..NumStates(graph) |->
                             IF Agrees(i - 1, Val(ret.inv), graph.nl)
                             THEN ret.num[i] ELSE 0])
     /\ ret.risk >= 0 /\ ret.risk <= ret.den
     /\ (\A l \in 1..graph.nl : Val(ret.inv)[l] = None) => ret.risk = ret.den

\* The finding of modality m (from 1) for LNL l in complete observation
\* number z (from 0) of M modalities over L LNLs, as read by _gen_B from row z
\* of a current obs_list.
Finding(z, m, l, M, L) == gen_obs_list(M, L)[z + 1][(m - 1) * L + l]

\* The diagnosis given to risk for modality m and LNL l (None when masked or
\* when the modality is left out).
Diagnosed(m, l) ==
  LET name == Val(modality_tables)[m].name
  IN IF name \in DOMAIN ret.diagnoses THEN ret.diagnoses[name][l] ELSE None

\* C13: the vector cZ that risk builds from a diagnosis has one entry per
\* complete observation of the model's modalities, and entry z is 1 exactly
\* when complete observation z agrees with the diagnosis on every entry that
\* is not missing: exactly one entry is 1 for a complete diagnosis of a single
\* modality, and all are 1 for a diagnosis with every entry missing.
C13_EncodingOfDiagnosis ==
  (RiskCalled /\ ret.raised = "no") =>
     LET M == Len(Val(modality_tables))
         L == graph.nl
     IN /\ Len(ret.cZ) = Pow(2, M * L)
        /\ \A z \in 0..(Pow(2, M * L) - 1) :
              ret.cZ[z + 1] = 1 <=>
                 \A m \in 1..M, l \in 1..L :
                    Diagnosed(m, l) = None \/ Diagnosed(m, l) = Finding(z, m, l, M, L)
        /\ (M = 1 /\ \A l \in 1..L : Diagnosed(1, l) # None) => SumSeq(ret.cZ) = 1
        /\ (\A m \in 1..M, l \in 1..L : Diagnosed(m, l) = None) =>
              SumSeq(ret.cZ) = Len(ret.cZ)

\* The T-stages a call of load_data loads: those asked for, or those of the
\* patients.
LoadedStages ==
  IF IsSet(ret.t_stages) THEN {Val(ret.t_stages)[k] : k \in 1..Len(Val(ret.t_stages))}
  ELSE {ret.data[i].stage : i \in 1..Len(ret.data)}

\* The entry of patient i for modality m and LNL l.
PatientEntry(i, m, l) == ret.data[i].diag[Val(modality_tables)[m].name][l]

\* The encoding of patient i: entry z is 1 when complete observation z agrees
\* with the patient's diagnosis on every entry that is not missing.
PatientEncoding(i) ==
  LET M == Len(Val(modality_tables))
      L == graph.nl
  IN [z \in 1..Pow(2, M * L) |->
        IF \A m \in 1..M, l \in 1..L :
              PatientEntry(i, m, l) = nan \/ PatientEntry(i, m, l) = Finding(z - 1, m, l, M, L)
        THEN 1 ELSE 0]

PatientsOf(stage) == {i \in 1..Len(ret.data) : ret.data[i].stage = stage}

HasEntry(i) ==
  \E m \in 1..Len(Val(modality_tables)), l \in 1..graph.nl : PatientEntry(i, m, l) # nan

\* C14: after load_data with the default options, for every T-stage loaded,
\* no column of C is all ones, no two columns of C are equal, f[k] is the
\* number of patients of the stage whose encoding is column k, and the sum of
\* f is the number of patients of the stage with an entry that is not missing.
C14_DataMatrix ==
  (/\ ret.op = "load_data" /\ ret.raised = "no"
   /\ ret.delete_ones /\ ret.aggregate_duplicates) =>
     \A stage \in LoadedStages :
        LET cols == Val(dataC)[stage]
            f == Val(dataF)[stage]
        IN /\ Len(f) = Len(cols)
           /\ \A k \in 1..Len(cols) : \E z \in 1..Len(cols[k]) : cols[k][z] # 1
           /\ \A j, k \in 1..Len(cols) : j # k => cols[j] # cols[k]
           /\ \A k \in 1..Len(cols) :
                 f[k] = Cardinality({i \in PatientsOf(stage) :
                                        PatientEncoding(i) = cols[k]})
           /\ SumSeq(f) = Cardinality({i \in PatientsOf(stage) : HasEntry(i)})

\* C15: every row of the matrix a read of B returns sums to 1.  The entries
\* of a matrix generated for k modalities are numerators over PD^(k * L), so
\* the rows of the matrix sum to 1 when they all sum to PD^(k * L) for one k.
C15_RowsOfBSumToOne ==
  (ret.op = "B" /\ ret.raised = "no") =>
     \E k \in 0..Len(ModNames) :
        \A i \in 1..Len(ret.val) : SumSeq(ret.val[i]) = Pow(PD, k * graph.nl)

RECURSIVE ProbOfDigits(_, _, _, _, _)
ProbOfDigits(i, z, tables, L, c) ==
  IF c > Len(tables) * L THEN 1
  ELSE obs_prob(StateBit(i, ((c - 1) % L) + 1, L),
                StateBit(z, c, Len(tables) * L),
                tables[((c - 1) \div L) + 1].table)
         * ProbOfDigits(i, z, tables, L, c + 1)

\* C17: observation number z, written as an M*L-digit binary number with the
\* most significant digit first, carries the finding of modality m for LNL l
\* at digit position m*L + l, and B[i,z] is computed from exactly these
\* digits, for every number of modalities and of LNLs.
C17_ObservationDigits ==
  /\ (ret.op = "obs_list" /\ ret.raised = "no") =>
        /\ Len(ret.val) = Pow(2, Len(Val(modality_tables)) * graph.nl)
        /\ \A z \in 1..Len(ret.val) :
              /\ Len(ret.val[z]) = Len(Val(modality_tables)) * graph.nl
              /\ \A c \in 1..Len(ret.val[z]) :
                    ret.val[z][c] = StateBit(z - 1, c, Len(ret.val[z]))
  /\ (ret.op = "B" /\ ret.raised = "no") =>
        /\ Len(ret.val) = Pow(2, graph.nl)
        /\ \A i \in 1..Len(ret.val) :
              /\ Len(ret.val[i]) = Pow(2, Len(Val(modality_tables)) * graph.nl)
              /\ \A z \in 1..Len(ret.val[i]) :
                    ret.val[i][z]
                      = ProbOfDigits(i - 1, z - 1, Val(modality_tables), graph.nl, 1)

\* The factors of the likelihood of the loaded data under the stored
\* parameters for the mode "HMM": for every T-stage and patient, the sum
\* over the states of ipsi_diagnose * (joint_state_dist @ contra_diagnose).
LoadedLikelihood ==
  hmm_loop(graph, edge_spread_prob, ipsi_modalities, contra_modalities,
           diag_time_dists, patient_data, 1)

\* The number val stands for is the likelihood (its logarithm when log is
\* set) with the factors terms.
IsLikelihoodOf(val, log, terms) ==
  LET one(ts) == \A k \in 1..Len(ts) : ts[k].num = ts[k].den
      zero(ts) == \E k \in 1..Len(ts) : ts[k].num = 0
      proper(ts) == SelectSeq(ts, LAMBDA x : x.num # x.den)
  IN IF val.log = log
     THEN (zero(val.terms) /\ zero(terms)) \/ proper(val.terms) = proper(terms)
     ELSE IF val.log THEN one(val.terms) /\ zero(terms)
     ELSE zero(val.terms) /\ one(terms)

\* C18: with given_params=None, Bilateral.likelihood returns the likelihood
\* of the loaded data under the stored parameters for the requested mode:
\* for the mode "HMM" and log=True the sum over T-stages and patients of the
\* logarithm of ipsi_diagnose^T * joint_state_dist * contra_diagnose, for
\* log=False the product of these factors.
C18_LikelihoodOfLoadedData ==
  (ret.op = "likelihood" /\ ~IsSet(ret.given_params) /\ ret.mode = "HMM") =>
     IsLikelihoodOf(ret.val, ret.log, LoadedLikelihood)

\* A specificity and a sensitivity, both in [0.5, 1.0].
PairInRange(spsn) ==
  /\ Len(spsn) = 2
  /\ \A k \in 1..2 : 2 * spsn[k] >= PD /\ spsn[k] <= PD

ListsItself(d) == \E k \in 1..Len(d) : d[k].name \in NameSet(d[k].connections)
ListsDuplicate(d) ==
  \E k \in 1..Len(d) : Len(d[k].connections) # Cardinality(NameSet(d[k].connections))
SharesName(d) == \E j, k \in 1..Len(d) : j # k /\ d[j].name = d[k].name
ListsUnknown(d) ==
  \E k \in 1..Len(d) :
     \E n \in NameSet(d[k].connections) : \A j \in 1..Len(d) : d[j].name # n

\* C20: constructing a model from a graph description fails with an error
\* when a node lists itself as a neighbor, when a connection list contains a
\* duplicate, when two nodes share a name, or when a listed neighbor name is
\* not a node of the graph; check_unique_names fails in the first three
\* cases.
C20_MalformedGraphFails ==
  /\ (/\ ret.op = "Unilateral"
      /\ \/ ListsItself(ret.graph) \/ ListsDuplicate(ret.graph)
         \/ SharesName(ret.graph) \/ ListsUnknown(ret.graph))
     => ret.raised # "no"
  /\ (/\ ret.op = "check_unique_names"
      /\ ListsItself(ret.graph) \/ ListsDuplicate(ret.graph) \/ SharesName(ret.graph))
     => ret.raised # "no"

\* The sum over the times s of w[s] * (start * A^s) with start the unit mass
\* on the first state and A the transition matrix of the stored spread
\* probabilities, from time s on; numerators over DA^(Len(w) - 1).
RECURSIVE SumOfPowers(_, _)
SumOfPowers(w, s) ==
  IF s > Len(w) - 1 THEN Zeros(NumStates(graph))
  ELSE AddVec(ScaleVec(w[s + 1] * Pow(DA(graph), Len(w) - 1 - s),
                       VecMat(start_state(graph), mat_pow(gen_A(graph, t), s))),
              SumOfPowers(w, s + 1))

TimeMarginalOps == {"log_likelihood.state_probs", "risk.pX", "likelihood.tmp"}

\* C21: for every distribution pi over the diagnose times 0..T_max the
\* time-marginalised state distribution is the sum over t of
\* pi[t] * (start * A^t); the accumulation of System.likelihood and the
\* product time_dist @ _evolve(t_last=T_max) of Unilateral.log_likelihood and
\* Unilateral.risk give that same vector.
C21_TimeMarginal ==
  ret.op \in TimeMarginalOps => ret.val = SumOfPowers(ret.w, 0)

\* The product has been taken over three diagnose times under spread
\* probabilities that move mass at every step.
C21_Witness ==
  /\ ret.op = "log_likelihood.state_probs"
  /\ Len(ret.w) = MaxMargT + 1
  /\ \A k \in 1..Len(ret.w) : ret.w[k] > 0
  /\ graph = GraphChain
  /\ t = <<3, 3>>
  /\ ret.val[Len(ret.val)] > 0

\* The row the returned tensor holds for parent state a and previous child
\* state b (both counted from 0), and the row of the identity.
TensorRow(a, b) == ret.tensor[a + 1][b + 1]
EyeRow(b) == [k \in 1..ret.num_child |-> IF k = b + 1 THEN TensorOne ELSE 0]
SpreadRow(num) == <<TensorOne - num, num>> \o TensorPad(ret.num_child)

\* The one or two rows an edge of the kind of the call sets, as pairs
\* <<a, b>>, and what the claim says they hold.
IsLnlEdge == ~ret.is_tumor_spread /\ ~ret.is_growth
ClaimedRow(a, b) ==
  IF ret.is_tumor_spread /\ a = 0 /\ b = 0 THEN SpreadRow(ret.spread_prob * PD)
  ELSE IF ~ret.is_tumor_spread /\ ret.is_growth /\ a = 1 /\ b = 1
  THEN <<0, (PD - ret.spread_prob) * PD, ret.spread_prob * PD>>
  ELSE IF IsLnlEdge /\ ret.num_parent = 3 /\ a = 1 /\ b = 0
  THEN SpreadRow(ret.spread_prob * ret.micro_mod)
  ELSE IF IsLnlEdge /\ ret.num_parent = 3 /\ a = 2 /\ b = 0
  THEN SpreadRow(ret.spread_prob * PD)
  ELSE IF IsLnlEdge /\ ret.num_parent = 2 /\ a = 1 /\ b = 0
  THEN SpreadRow(ret.spread_prob * PD)
  ELSE EyeRow(b)

\* The call is one the rules speak of: a tumor edge, a growth edge between
\* trinary nodes, or an LNL edge from a binary or trinary parent.
IsEdgeOfTheRules ==
  /\ ret.op = "comp_transition_tensor"
  /\ \/ ret.is_tumor_spread
     \/ ~ret.is_tumor_spread /\ ret.is_growth /\ ret.num_child = 3 /\ ret.num_parent >= 2
     \/ IsLnlEdge /\ ret.num_parent \in {2, 3}

\* C22: comp_transition_tensor returns a tensor of shape (K_parent, K_child,
\* K_child) that is the identity on its last two axes except for the rows
\* [0,0,:] = [1-p, p, 0..] of a tumor edge, [1,1,:] = [0, 1-p, p] of a growth
\* edge, [1,0,:] = [1-p*m, p*m, 0..] and [2,0,:] = [1-p, p, 0..] of an LNL
\* edge with a trinary parent and [1,0,:] = [1-p, p, 0..] of an LNL edge with
\* a binary parent; so every row sums to 1, no row puts weight on a child
\* state below the previous one, and a healthy child never becomes
\* macroscopic in one step.
C22_TransitionTensor ==
  IsEdgeOfTheRules =>
    /\ ret.raised = "no"
    /\ Len(ret.tensor) = ret.num_parent
    /\ \A a \in 0..(ret.num_parent - 1) :
         /\ Len(ret.tensor[a + 1]) = ret.num_child
         /\ \A b \in 0..(ret.num_child - 1) :
              /\ Len(TensorRow(a, b)) = ret.num_child
              /\ TensorRow(a, b) = ClaimedRow(a, b)
              /\ SumSeq(TensorRow(a, b)) = TensorOne
              /\ \A k \in 1..ret.num_child : TensorRow(a, b)[k] >= 0
              /\ \A k \in 1..b : TensorRow(a, b)[k] = 0
              /\ b = 0 /\ ret.num_child = 3 => TensorRow(a, b)[3] = 0

\* The tensor of an LNL edge between trinary nodes has been computed with a
\* spread probability and a micro_mod strictly between 0 and 1.
C22_Witness ==
  /\ IsEdgeOfTheRules
  /\ IsLnlEdge
  /\ ret.num_parent = 3
  /\ ret.num_child = 3
  /\ ret.spread_prob = 3
  /\ ret.micro_mod = 3
  /\ TensorRow(1, 0) = <<TensorOne - 9, 9, 0>>
  /\ TensorRow(2, 0) = <<TensorOne - 3 * PD, 3 * PD, 0>>

\* The last call was log_likelihood in HMM mode without t_stages, with valid
\* spread probabilities and one diagnose time within max_t for every
\* T-stage of the loaded data.
CalledWithoutStages ==
  /\ ret.op = "log_likelihood"
  /\ ~IsSet(ret.t_stages)
  /\ ret.len = ret.want
  /\ \A k \in 1..ret.len : ret.spread_probs[k] >= 0 /\ ret.spread_probs[k] <= PD
  /\ IsSet(dataF)
  /\ IsSet(ret.diag_times)
  /\ DOMAIN Val(ret.diag_times) = DOMAIN Val(dataF)
  /\ \A s \in DOMAIN Val(ret.diag_times) : Val(ret.diag_times)[s] <= ret.max_t

\* C23: log_likelihood called in HMM mode without t_stages takes the
\* T-stages from the loaded data and returns the log-likelihood over all of
\* them.
C23_StagesInferred ==
  CalledWithoutStages => ret.raised = "no" /\ ret.result # "none"

\* The number of entries of theta that set_theta reads under the flags of
\* the last call.
ThetaWanted ==
  (IF ret.base_symmetric THEN 1 ELSE 2) * Len(base_edges(graph))
  + (IF ret.trans_symmetric THEN 1 ELSE 2) * Len(trans_edges(graph))

\* C24: for a BilateralSystem without cross connections, after
\* set_theta(theta, mode="HMM") A_i is the unilateral transition matrix
\* under the ipsilateral spread probabilities and A_c the one under the
\* contralateral spread probabilities.
C24_SideMatrices ==
  (/\ ret.op = "BilateralSystem.set_theta"
   /\ ret.mode = "HMM"
   /\ Len(ret.theta) = ThetaWanted)
  => /\ ret.raised = "no"
     /\ bilateral_system.A_i = Some(Sys_gen_A(graph, bilateral_system.t_i))
     /\ bilateral_system.A_c = Some(Sys_gen_A(graph, bilateral_system.t_c))

\* The cached list of complete observations is the one of the modalities
\* set now.
ObsListCurrent ==
  /\ IsSet(modality_tables)
  /\ IsSet(cached_obs_list)
  /\ Val(cached_obs_list) = gen_obs_list(Len(Val(modality_tables)), graph.nl)

\* C25: for every combination of delete_ones and aggregate_duplicates, after
\* _gen_C the vector f of a T-stage has exactly one entry per column of the
\* matrix C of the stage, and f[k] is the number of patients whose
\* compressed diagnosis is column k (one patient per column when duplicates
\* are kept).
C25_OneCountPerColumn ==
  (ret.op = "load_data" /\ ret.raised = "no" /\ ObsListCurrent) =>
     \A stage \in LoadedStages :
        LET cols == Val(dataC)[stage]
            f == Val(dataF)[stage]
        IN /\ Len(f) = Len(cols)
           /\ \A k \in 1..Len(cols) :
                 f[k] = IF ret.aggregate_duplicates
                        THEN Cardinality({i \in PatientsOf(stage) :
                                             PatientEncoding(i) = cols[k]})
                        ELSE 1

\* C29: after every call of load_data the keys of C and of f are exactly the
\* T-stages that call has processed; a T-stage of an earlier load that the
\* latest load has not processed does not remain.
C29_StagesOfLastLoad ==
  (ret.op = "load_data" /\ ret.raised = "no") =>
     /\ DOMAIN Val(dataC) = LoadedStages
     /\ DOMAIN Val(dataF) = LoadedStages

\* C26: whenever log_likelihood returns minus infinity, the spread
\* probabilities on the edges and the cached transition matrix are the same
\* as before the call.
C26_MinusInfinityLeavesParams ==
  [][(ret'.op = "log_likelihood" /\ ret'.raised = "no" /\ ret'.result = "neginf")
       => (t' = t /\ cachedA' = cachedA)]_vars

\* C27: if assigning modalities raises an error, the modalities registered
\* before are left unchanged.
C27_FailedAssignmentKeepsModalities ==
  [][(/\ IsSet(modality_tables)
      /\ Val(modality_tables) # <<>>
      /\ ret'.op = "modalities"
      /\ ret'.raised # "no")
       => modality_tables' = modality_tables]_vars

\* C28: reading A or B, or calling log_likelihood or risk, leaves the hidden
\* state of the model (Unilateral.state) as it was before the call.
C28_ReadsLeaveState ==
  [][(cls = "Unilateral" /\ ret'.op \in {"A", "B", "log_likelihood", "risk"})
       => lnlState' = lnlState]_vars

\* The probability that LNL l is involved under the distribution v over the
\* hidden states, as the sum of the numerators of v.
RECURSIVE InvolvedFrom(_, _, _)
InvolvedFrom(v, l, i) ==
  IF i > Len(v) THEN 0
  ELSE (IF state_list(graph)[i][l] = 1 THEN v[i] ELSE 0) + InvolvedFrom(v, l, i + 1)

\* C30: for every valid parameter set and every LNL the marginal probability
\* that the LNL is involved under start * A^t does not decrease with t, and
\* the state with all LNLs involved is absorbing: its row of A has 1 on the
\* diagonal.
C30_InvolvementGrows ==
  (cls = "Unilateral" /\ ParamsValid) =>
    /\ ret.op = "_evolve" =>
         \A l \in 1..graph.nl :
            InvolvedFrom(ret.val, l, 1) * DA(graph)
              <= InvolvedFrom(VecMat(ret.val, Val(cachedA)), l, 1)
    /\ (ret.op = "A" /\ ret.raised = "no") =>
         \A j \in 1..NumStates(graph) :
            ret.val[NumStates(graph)][j] = IF j = NumStates(graph) THEN DA(graph) ELSE 0

\* The distribution after the last time step has been computed on the chain
\* of two LNLs, and one more step strictly raises the involvement of the
\* second LNL.
C30_Witness ==
  /\ cls = "Unilateral"
  /\ ret.op = "_evolve"
  /\ ret.t_first = MaxMargT
  /\ graph = GraphChain
  /\ t = <<3, 3>>
  /\ InvolvedFrom(ret.val, 2, 1) > 0
  /\ InvolvedFrom(ret.val, 2, 1) * DA(graph)
       < InvolvedFrom(VecMat(ret.val, Val(cachedA)), 2, 1)

====
